---------------------------- MODULE Spec2Model ----------------------------
(***************************************************************************)
(* Taskana: conversation state store (StateService), conversation router   *)
(* (ConversationService) and the storage they drive (PersistenceService).  *)
(*                                                                         *)
(* Conventions                                                             *)
(*  - A JavaScript string is a sequence of string fragments, so that a     *)
(*    template literal is a concatenation; `undefined` for an optional     *)
(*    string is the empty sequence Undef.                                  *)
(*  - The clock counts whole minutes; pendingExpiryMs (5 * 60 * 1000 ms)   *)
(*    is pendingExpiryMin minutes.  An optional Date is NoTime when unset. *)
(*  - A confidence is an integer number of hundredths (0.85 is 85).        *)
(*  - ConversationState.lastActivity is written by every operation and     *)
(*    read by none; it is left out of the state.                           *)
(*  - A day key with no file reads as the empty daily log: loadDay creates *)
(*    and returns createEmptyDailyLog(date) for it.                        *)
(***************************************************************************)
EXTENDS Integers, Sequences, FiniteSets, TLC

VARIABLES
    states,     \* StateService.states: Map<phoneNumber, ConversationState>
    now,        \* the wall clock (Date.now()), in minutes
    days,       \* PersistenceService: the daily logs, by date
    habits,     \* HabitService.habits: the loaded habit definitions
    turns,      \* history variable: number of router turns taken
    ret,        \* what the latest operation did and returned
    added,      \* history variable: every message ever added, per id
    stamp,      \* history variable: latest explicit pending-state write, per id
    flight,     \* the handleText calls that are suspended at an await
    ai,         \* ConversationAiService: the latest classify call
    scheduledReminders, \* ReminderService.scheduledReminders
    timers,     \* the timers made by setTimeout in ReminderService, by handle
    heap,       \* the DailyLog objects PersistenceService has built, by reference
    cache,      \* PersistenceService.cache: the reference kept for a date, 0 for none
    files,      \* the day files on disk: <<>> when there is none, else <<content>>
    storing     \* the addTask calls made, each with its position

reminderVars == <<scheduledReminders, timers>>
\* the daily logs at the grain of objects, cache entries and files; `days`
\* is the same logs when no two storage calls overlap
fileVars == <<heap, cache, files, storing>>
vars == <<states, now, days, habits, turns, ret, added, stamp, flight, ai, reminderVars,
          fileVars>>

----------------------------------------------------------------------------
(* Bounds of the model *)

MaxTime == 7
MaxAdds == 11
MaxAssistant == 1
StoreAdds == 1
MaxTurns == 2
ApiTurns == 1
MaxTasks == 1
MaxEvents == 2
TaskCap == 2

----------------------------------------------------------------------------
(* Program constants *)

maxRecentMessages == 10
pendingExpiryMin == 5
CONFIDENCE_LOW == 30
CONFIDENCE_MEDIUM == 60
CONFIDENCE_HIGH == 85

----------------------------------------------------------------------------
(* Values *)

Undef == <<>>
NoTime == -1
S(x) == <<x>>

Ids == {"A", "B"}
Roles == {"user", "assistant"}

Min(a, b) == IF a < b THEN a ELSE b

\* Array.prototype.slice(-n): the last n elements (all of them if fewer)
SliceLast(seq, n) ==
    IF Len(seq) <= n THEN seq
    ELSE SubSeq(seq, Len(seq) - n + 1, Len(seq))

----------------------------------------------------------------------------
(* StateService *)

createInitialState ==
    [pendingState |-> "idle",
     pendingReference |-> Undef,
     pendingAction |-> Undef,
     pendingSetAt |-> NoTime,
     recentMessages |-> <<>>]

\* states.get(phoneNumber), or a fresh initial state when the map has none
StateOrInitial(m, id) ==
    IF id \in DOMAIN m THEN m[id] ELSE createInitialState

\* states.set storing the state under every known phone number
MapSetEvery(m, id, st) == [k \in (DOMAIN m) \cup {id} |-> st]

\* states.set(phoneNumber, state)
MapSet(m, id, st) == [k \in (DOMAIN m) \cup {id} |-> IF k = id THEN st ELSE m[k]]

isPendingExpiredAtLimit(st, t) ==
    IF st.pendingState = "idle" \/ st.pendingSetAt = NoTime
    THEN FALSE
    ELSE (t - st.pendingSetAt) >= pendingExpiryMin

isPendingExpired(st, t) ==
    IF st.pendingState = "idle" \/ st.pendingSetAt = NoTime
    THEN FALSE
    ELSE (t - st.pendingSetAt) > pendingExpiryMin

\* clearPendingState that leaves the reference and the action
ClearPendingMapKeepsPayload(m, id) ==
    MapSet(m, id, [StateOrInitial(m, id) EXCEPT
                       !.pendingState = "idle",
                       !.pendingSetAt = NoTime])

\* the map after clearPendingState(phoneNumber)
ClearPendingMap(m, id) ==
    MapSet(m, id, [StateOrInitial(m, id) EXCEPT
                       !.pendingState = "idle",
                       !.pendingReference = Undef,
                       !.pendingAction = Undef,
                       !.pendingSetAt = NoTime])

\* getState without the expiry check
GetStateMapUnexpiring(m, id, t) ==
    MapSet(m, id, StateOrInitial(m, id))

\* the map after getState(phoneNumber) at time t; getState returns
\* GetStateMap(m, id, t)[id]
GetStateMap(m, id, t) ==
    LET m1 == MapSet(m, id, StateOrInitial(m, id))
    IN  IF isPendingExpired(m1[id], t) THEN ClearPendingMap(m1, id) ELSE m1

\* a StateUpdate: an absent pendingState is "undefined", an absent string Undef
NoUpdate == [pendingState |-> "undefined", pendingReference |-> Undef, pendingAction |-> Undef]

\* the map after setState(phoneNumber, updates) at time t
SetStateMap(m, id, upd, t) ==
    LET m1 == GetStateMap(m, id, t)
        s0 == m1[id]
        s1 == IF upd.pendingState # "undefined"
              THEN [s0 EXCEPT !.pendingState = upd.pendingState,
                              !.pendingSetAt = IF upd.pendingState # "idle" THEN t ELSE NoTime]
              ELSE s0
        s2 == IF upd.pendingReference # Undef
              THEN [s1 EXCEPT !.pendingReference = upd.pendingReference]
              ELSE s1
        s3 == IF upd.pendingAction # Undef
              THEN [s2 EXCEPT !.pendingAction = upd.pendingAction]
              ELSE s2
    IN  MapSet(m1, id, s3)

CapKeepFirst(msgs) ==
    IF Len(msgs) > maxRecentMessages THEN SubSeq(msgs, 1, maxRecentMessages) ELSE msgs

\* the cap of addMessage: keep the last maxRecentMessages entries
Cap(msgs) ==
    IF Len(msgs) > maxRecentMessages THEN SliceLast(msgs, maxRecentMessages) ELSE msgs

\* the map after addMessage(phoneNumber, role, content) at time t
AddMessageMap(m, id, role, content, t) ==
    LET m1 == GetStateMap(m, id, t)
        msg == [role |-> role, content |-> content, timestamp |-> t]
    IN  MapSet(m1, id, [m1[id] EXCEPT !.recentMessages = Cap(Append(@, msg))])

\* the value hasPendingState(phoneNumber) returns at time t
HasPendingResult(m, id, t) ==
    LET st == GetStateMap(m, id, t)[id]
    IN  st.pendingState # "idle" /\ ~isPendingExpired(st, t)

----------------------------------------------------------------------------
(* PersistenceService: daily logs *)

Today == 0
Dates == -4..4
NoDate == -1000

createEmptyDailyLog == [habits |-> <<>>, tasks |-> <<>>, nextTaskId |-> 1]

\* index of the entry of habitId in log.habits, 0 when there is none
HabitIndex(entries, habitId) ==
    IF \E i \in 1..Len(entries) : entries[i].habitId = habitId
    THEN CHOOSE i \in 1..Len(entries) :
            /\ entries[i].habitId = habitId
            /\ \A j \in 1..(i - 1) : entries[j].habitId # habitId
    ELSE 0

\* log.habits after updateHabitStatus(date, habitId, status, justification)
\* at time t; a null justification and a null completedAt are Undef, NoTime
UpdateHabitEntries(entries, habitId, status, justification, t) ==
    LET withEntry == IF HabitIndex(entries, habitId) = 0
                     THEN Append(entries, [habitId |-> habitId, status |-> "pending",
                                           justification |-> Undef, completedAt |-> NoTime])
                     ELSE entries
        i == HabitIndex(withEntry, habitId)
        e0 == withEntry[i]
        e1 == [e0 EXCEPT !.status = status]
        e2 == IF status = "done" THEN [e1 EXCEPT !.completedAt = t] ELSE e1
        e3 == IF status = "skipped" /\ justification # Undef
              THEN [e2 EXCEPT !.justification = justification] ELSE e2
    IN  [withEntry EXCEPT ![i] = e3]

updateHabitStatus(ds, date, habitId, status, justification, t) ==
    [ds EXCEPT ![date].habits = UpdateHabitEntries(@, habitId, status, justification, t)]

\* the record of one write call, as a test double would log it
WriteCall(habitId, status, justification) ==
    [call |-> "updateHabitStatus", habitId |-> habitId, status |-> status,
     justification |-> justification]

\* String(n): one fragment per decimal digit
RECURSIVE DigitString(_)
DigitString(n) ==
    IF n < 10 THEN <<ToString(n)>> ELSE DigitString(n \div 10) \o <<ToString(n % 10)>>

\* String(n).padStart(3, '0')
PadStart3(n) ==
    (IF n < 10 THEN <<"00">> ELSE IF n < 100 THEN <<"0">> ELSE <<>>) \o DigitString(n)

\* the task argument of addTask; an absent origin or shiftedTo is NoDate
NewTask(title, description, slot, origin) ==
    [title |-> title, description |-> description, islamicTimeSlot |-> slot,
     origin |-> origin, shiftedTo |-> NoDate, shiftReason |-> Undef]

\* addTask building the entry without the origin of the task argument
TaskEntryNoOrigin(log, task, t) ==
    [id |-> <<"t-">> \o PadStart3(log.nextTaskId),
     title |-> task.title,
     description |-> task.description,
     islamicTimeSlot |-> task.islamicTimeSlot,
     status |-> "pending",
     completedAt |-> NoTime,
     createdAt |-> t,
     origin |-> NoDate,
     shiftedTo |-> task.shiftedTo,
     shiftReason |-> task.shiftReason]

\* the TaskEntry that addTask(date, task) builds at time t
TaskEntryOf(log, task, t) ==
    [id |-> <<"t-">> \o PadStart3(log.nextTaskId),
     title |-> task.title,
     description |-> task.description,
     islamicTimeSlot |-> task.islamicTimeSlot,
     status |-> "pending",
     completedAt |-> NoTime,
     createdAt |-> t,
     origin |-> task.origin,
     shiftedTo |-> task.shiftedTo,
     shiftReason |-> task.shiftReason]

\* addTask leaving the counter of the day as it was
addTaskKeepingCounter(ds, date, task, t) ==
    [ds EXCEPT ![date] = [@ EXCEPT !.tasks = Append(@, TaskEntryOf(ds[date], task, t))]]

\* the daily logs after addTask(date, task) at time t
addTask(ds, date, task, t) ==
    [ds EXCEPT ![date] = [@ EXCEPT !.nextTaskId = @ + 1,
                                   !.tasks = Append(@, TaskEntryOf(ds[date], task, t))]]

\* index of the first task with this id in log.tasks, 0 when there is none
TaskIndex(tasks, taskId) ==
    IF \E i \in 1..Len(tasks) : tasks[i].id = taskId
    THEN CHOOSE i \in 1..Len(tasks) :
            /\ tasks[i].id = taskId
            /\ \A j \in 1..(i - 1) : tasks[j].id # taskId
    ELSE 0

\* getTask(date, taskId): the entry, or NoTask for null
NoTask ==
    [id |-> Undef, title |-> Undef, description |-> Undef, islamicTimeSlot |-> "none",
     status |-> "none", completedAt |-> NoTime, createdAt |-> NoTime, origin |-> NoDate,
     shiftedTo |-> NoDate, shiftReason |-> Undef]
getTask(ds, date, taskId) ==
    IF TaskIndex(ds[date].tasks, taskId) = 0 THEN NoTask
    ELSE ds[date].tasks[TaskIndex(ds[date].tasks, taskId)]

\* Object.assign(task, updates) followed by the completedAt rule; updates.keys
\* are the properties the updates object has
AssignTask(task, updates, t) ==
    LET a == [task EXCEPT
                !.status = IF "status" \in updates.keys THEN updates.status ELSE @,
                !.shiftedTo = IF "shiftedTo" \in updates.keys THEN updates.shiftedTo ELSE @,
                !.shiftReason = IF "shiftReason" \in updates.keys THEN updates.shiftReason ELSE @]
    IN  IF "status" \in updates.keys /\ updates.status = "done" /\ a.completedAt = NoTime
        THEN [a EXCEPT !.completedAt = t] ELSE a

\* the daily logs after updateTask(date, taskId, updates) at time t; a task
\* that is not found leaves them as they are
updateTask(ds, date, taskId, updates, t) ==
    LET i == TaskIndex(ds[date].tasks, taskId)
    IN  IF i = 0 THEN ds
        ELSE [ds EXCEPT ![date].tasks[i] = AssignTask(@, updates, t)]

\* the daily logs after deleteTask(date, taskId): the entry is removed and
\* nothing else of the record changes
deleteTask(ds, date, taskId) ==
    LET i == TaskIndex(ds[date].tasks, taskId)
    IN  IF i = 0 THEN ds
        ELSE [ds EXCEPT ![date].tasks = SubSeq(@, 1, i - 1) \o SubSeq(@, i + 1, Len(@))]

----------------------------------------------------------------------------
(* TaskService *)

\* entities.timeSlot ?? 'after_dhuhr', with "none" for an absent slot
SlotOrDefault(slot) == IF slot = "none" THEN "after_dhuhr" ELSE slot

\* the daily logs after create(date, entities); without a title nothing is added
TaskCreated(ds, date, taskTitle, taskDescription, timeSlot, t) ==
    IF taskTitle = Undef THEN ds
    ELSE addTask(ds, date, NewTask(taskTitle, taskDescription, SlotOrDefault(timeSlot), NoDate), t)

\* the normalize step of calculateSimilarity: lower case, punctuation
\* removed, split on white space, one-letter words dropped, as a set
NormalizedWords(str) ==
    CASE str = S("buy vegetables") -> {"buy", "vegetables"}
      [] str = S("Buy  vegetables!") -> {"buy", "vegetables"}
      [] str = S("buy fresh vegetables") -> {"buy", "fresh", "vegetables"}
      [] str = S("buy fresh green vegetables") -> {"buy", "fresh", "green", "vegetables"}
      [] str = S("call the doctor") -> {"call", "the", "doctor"}
      [] str = S("a b") -> {}
      [] OTHER -> {str[1]}

\* calculateSimilarity as the fraction num / den
calculateSimilarity(str1, str2) ==
    LET words1 == NormalizedWords(str1)
        words2 == NormalizedWords(str2)
        intersection == Cardinality(words1 \cap words2)
    IN  IF words1 = {} \/ words2 = {}
        THEN [num |-> 0, den |-> 1]
        ELSE [num |-> intersection,
              den |-> Cardinality(words1) + Cardinality(words2) - intersection]

NoSimilar == [task |-> Undef, date |-> NoDate, similarity |-> [num |-> 0, den |-> 1]]

\* the results pushed by findSimilarInWeek for the days from `from` to
\* currentDate + 3, in the order of the loops
RECURSIVE SimilarFrom(_, _, _, _)
SimilarFrom(ds, currentDate, taskTitle, from) ==
    IF from > currentDate + 3 THEN <<>>
    ELSE LET Open(task) == task.status # "shifted" /\ task.status # "done"
             Close(task) == LET sim == calculateSimilarity(taskTitle, task.title)
                            IN  10 * sim.num >= 7 * sim.den
             Hit(task) == Open(task) /\ Close(task)
             hits == IF from \in DOMAIN ds THEN SelectSeq(ds[from].tasks, Hit) ELSE <<>>
         IN  [i \in 1..Len(hits) |->
                 [task |-> hits[i], date |-> from,
                  similarity |-> calculateSimilarity(taskTitle, hits[i].title)]]
             \o SimilarFrom(ds, currentDate, taskTitle, from + 1)

\* findSimilarInWeek(currentDate, taskTitle): the first of the most similar
\* results (the sort is stable), or NoSimilar for null
findSimilarInWeek(ds, currentDate, taskTitle) ==
    LET results == SimilarFrom(ds, currentDate, taskTitle, currentDate - 3)
        Beats(a, b) == a.similarity.num * b.similarity.den > b.similarity.num * a.similarity.den
    IN  IF results = <<>> THEN NoSimilar
        ELSE results[CHOOSE i \in 1..Len(results) :
                        /\ \A j \in 1..Len(results) : ~Beats(results[j], results[i])
                        /\ \A j \in 1..(i - 1) : Beats(results[i], results[j])]

\* taskId.replace(/^t-?/i, ''): a leading "t-" or "t" is removed; "t-1" is
\* the one fragment that carries both the prefix and a digit
StripT(taskId) ==
    IF taskId = <<>> THEN taskId
    ELSE IF Head(taskId) \in {"t-", "T-", "t", "T"} THEN Tail(taskId)
    ELSE IF Head(taskId) = "t-1" THEN <<"1">> \o Tail(taskId)
    ELSE taskId

\* the digits a fragment starts with: their value and their count; a fragment
\* is all digits or has none
NaN == -1
DigitsOf(frag) ==
    CASE frag = "0" -> [val |-> 0, len |-> 1]
      [] frag = "00" -> [val |-> 0, len |-> 2]
      [] frag = "1" -> [val |-> 1, len |-> 1]
      [] frag = "2" -> [val |-> 2, len |-> 1]
      [] OTHER -> [val |-> NaN, len |-> 0]

\* parseInt(numPart, 10): the leading digits, NaN when there are none
RECURSIVE ParseDigits(_, _)
ParseDigits(numPart, acc) ==
    IF numPart = <<>> \/ DigitsOf(Head(numPart)).val = NaN THEN acc
    ELSE ParseDigits(Tail(numPart),
                     acc * (10 ^ DigitsOf(Head(numPart)).len) + DigitsOf(Head(numPart)).val)
parseInt(numPart) ==
    IF numPart = <<>> \/ DigitsOf(Head(numPart)).val = NaN THEN NaN
    ELSE ParseDigits(numPart, 0)

\* TaskService.normalizeTaskId
normalizeTaskId(taskId) ==
    LET num == parseInt(StripT(taskId))
    IN  IF num = NaN THEN taskId ELSE <<"t-">> \o PadStart3(num)

\* startOfDay(new Date(targetDate)) as a local day: the date string is read
\* as midnight UTC, which west of UTC is still the evening of the day before
LocalDayOf(date, west) == IF west THEN date - 1 ELSE date

\* calls of PersistenceService made by a task operation
GetCall(date, taskId) == [call |-> "getTask", date |-> date, taskId |-> taskId]
UpdateCall(date, taskId, updates) ==
    [call |-> "updateTask", date |-> date, taskId |-> taskId, updates |-> updates]
AddCall(date, task) == [call |-> "addTask", date |-> date, task |-> task]

\* a TaskOperationResult, with the daily logs the operation leaves and the
\* PersistenceService calls it made
TaskResult(ds, success, task, error, calls) ==
    [ds |-> ds, success |-> success, task |-> task, error |-> error, calls |-> calls,
     rejected |-> FALSE]

\* the updates objects of complete, skip and shift
DoneUpdates ==
    [keys |-> {"status"}, status |-> "done", shiftedTo |-> NoDate, shiftReason |-> Undef]
SkippedUpdates(justification) ==
    [keys |-> {"status", "shiftReason"}, status |-> "skipped", shiftedTo |-> NoDate,
     shiftReason |-> justification]
ShiftedUpdates(targetDate, reason) ==
    [keys |-> {"status", "shiftedTo", "shiftReason"}, status |-> "shifted",
     shiftedTo |-> targetDate, shiftReason |-> reason]

\* complete without the check for a shifted task
completeShifted(ds, date, taskId, t) ==
    LET id == normalizeTaskId(taskId)
        task == getTask(ds, date, id)
        after == updateTask(ds, date, id, DoneUpdates, t)
    IN  IF task = NoTask
        THEN TaskResult(ds, FALSE, NoTask, S("Task not found"), <<GetCall(date, id)>>)
        ELSE IF task.status = "done"
        THEN TaskResult(ds, FALSE, task, S("Task already completed"), <<GetCall(date, id)>>)
        ELSE TaskResult(after, TRUE, getTask(after, date, id), Undef,
                        <<GetCall(date, id), UpdateCall(date, id, DoneUpdates)>>)

\* TaskService.delete(date, taskId); deleteTask answers whether it removed
\* the task
DeleteCall(date, taskId) == [call |-> "deleteTask", date |-> date, taskId |-> taskId]
delete(ds, date, taskId) ==
    LET id == normalizeTaskId(taskId)
        task == getTask(ds, date, id)
    IN  IF task = NoTask
        THEN TaskResult(ds, FALSE, NoTask, S("Task not found"), <<GetCall(date, id)>>)
        ELSE TaskResult(deleteTask(ds, date, id), TRUE, task, Undef,
                        <<GetCall(date, id), DeleteCall(date, id)>>)

\* TaskService.complete(date, taskId) at time t
complete(ds, date, taskId, t) ==
    LET id == normalizeTaskId(taskId)
        task == getTask(ds, date, id)
        after == updateTask(ds, date, id, DoneUpdates, t)
    IN  IF task = NoTask
        THEN TaskResult(ds, FALSE, NoTask, S("Task not found"), <<GetCall(date, id)>>)
        ELSE IF task.status = "done"
        THEN TaskResult(ds, FALSE, task, S("Task already completed"), <<GetCall(date, id)>>)
        ELSE IF task.status = "shifted"
        THEN TaskResult(ds, FALSE, task, S("Task was shifted"), <<GetCall(date, id)>>)
        ELSE TaskResult(after, TRUE, getTask(after, date, id), Undef,
                        <<GetCall(date, id), UpdateCall(date, id, DoneUpdates)>>)

\* skip without the check for a completed task
skipCompleted(ds, date, taskId, justification, t) ==
    LET id == normalizeTaskId(taskId)
        task == getTask(ds, date, id)
        after == updateTask(ds, date, id, SkippedUpdates(justification), t)
    IN  IF task = NoTask
        THEN TaskResult(ds, FALSE, NoTask, S("Task not found"), <<GetCall(date, id)>>)
        ELSE IF task.status = "shifted"
        THEN TaskResult(ds, FALSE, task, S("Task was shifted"), <<GetCall(date, id)>>)
        ELSE TaskResult(after, TRUE, getTask(after, date, id), Undef,
                        <<GetCall(date, id), UpdateCall(date, id, SkippedUpdates(justification))>>)

\* TaskService.skip(date, taskId, justification) at time t
skip(ds, date, taskId, justification, t) ==
    LET id == normalizeTaskId(taskId)
        task == getTask(ds, date, id)
        after == updateTask(ds, date, id, SkippedUpdates(justification), t)
    IN  IF task = NoTask
        THEN TaskResult(ds, FALSE, NoTask, S("Task not found"), <<GetCall(date, id)>>)
        ELSE IF task.status = "done"
        THEN TaskResult(ds, FALSE, task, S("Cannot skip completed task"), <<GetCall(date, id)>>)
        ELSE IF task.status = "shifted"
        THEN TaskResult(ds, FALSE, task, S("Task was shifted"), <<GetCall(date, id)>>)
        ELSE TaskResult(after, TRUE, getTask(after, date, id), Undef,
                        <<GetCall(date, id), UpdateCall(date, id, SkippedUpdates(justification))>>)

\* shift from the task lookup on: what shift does once the target date has
\* passed the check, at time t
ShiftFound(ds, date, taskId, targetDate, reason, t) ==
    LET id == normalizeTaskId(taskId)
        task == getTask(ds, date, id)
        marked == updateTask(ds, date, id, ShiftedUpdates(targetDate, reason), t)
        copy == NewTask(task.title, task.description, task.islamicTimeSlot, date)
        after == addTask(marked, targetDate, copy, t)
    IN  IF task = NoTask
        THEN TaskResult(ds, FALSE, NoTask, S("Task not found"), <<GetCall(date, id)>>)
        ELSE IF task.status = "done"
        THEN TaskResult(ds, FALSE, task, S("Cannot shift completed task"), <<GetCall(date, id)>>)
        ELSE IF task.status = "shifted"
        THEN TaskResult(ds, FALSE, task, S("Task already shifted"), <<GetCall(date, id)>>)
        ELSE TaskResult(after, TRUE, TaskEntryOf(marked[targetDate], copy, t), Undef,
                        <<GetCall(date, id),
                          UpdateCall(date, id, ShiftedUpdates(targetDate, reason)),
                          AddCall(targetDate, copy)>>)

\* shift with the task lookup ahead of the date check
shiftLookupFirst(ds, date, taskId, targetDate, reason, west, t) ==
    LET id == normalizeTaskId(taskId)
    IN  IF getTask(ds, date, id) = NoTask
        THEN TaskResult(ds, FALSE, NoTask, S("Task not found"), <<GetCall(date, id)>>)
        ELSE IF LocalDayOf(targetDate, west) < Today
        THEN TaskResult(ds, FALSE, NoTask, S("Cannot shift to past date"), <<GetCall(date, id)>>)
        ELSE ShiftFound(ds, date, taskId, targetDate, reason, t)

\* TaskService.shift(date, taskId, targetDate, reason) at time t; west: the
\* process runs in a time zone west of UTC
shift(ds, date, taskId, targetDate, reason, west, t) ==
    IF LocalDayOf(targetDate, west) < Today
    THEN TaskResult(ds, FALSE, NoTask, S("Cannot shift to past date"), <<>>)
    ELSE ShiftFound(ds, date, taskId, targetDate, reason, t)

\* shift where the PersistenceService calls named in faults throw before
\* they store anything: shift has no try/catch, so its promise rejects with
\* what was stored so far left in place
shiftFailing(ds, date, taskId, targetDate, reason, west, faults, t) ==
    LET id == normalizeTaskId(taskId)
        done == shift(ds, date, taskId, targetDate, reason, west, t)
        marked == updateTask(ds, date, id, ShiftedUpdates(targetDate, reason), t)
        Rejected(stored, calls) ==
            [TaskResult(stored, FALSE, NoTask, Undef, calls) EXCEPT !.rejected = TRUE]
    IN  IF ~done.success
        THEN done
        ELSE IF "updateTask" \in faults
        THEN Rejected(ds, SubSeq(done.calls, 1, 2))
        ELSE IF "addTask" \in faults
        THEN Rejected(marked, done.calls)
        ELSE done

----------------------------------------------------------------------------
(* HabitService: habit definitions loaded from the habits directory *)

QuranReading ==
    [id |-> S("quran-reading"), name |-> S("Quran reading"),
     requiresJustification |-> TRUE, islamicTimeSlot |-> "after_fajr", today |-> TRUE,
     durationMinutes |-> 3, atStart |-> TRUE, beforeEnd |-> TRUE, beforeEndMinutes |-> 1]
Exercise(today) ==
    [id |-> S("exercise"), name |-> S("Exercise"),
     requiresJustification |-> FALSE, islamicTimeSlot |-> "after_asr", today |-> today,
     durationMinutes |-> 2, atStart |-> TRUE, beforeEnd |-> FALSE, beforeEndMinutes |-> 1]

\* the habit files found at start-up: `today` tells whether schedule.days
\* holds the current day of the week
HabitConfigs == {<<QuranReading, Exercise(TRUE)>>}

\* HabitService.getById: the habit, or NoHabit for undefined
NoHabit ==
    [id |-> Undef, name |-> Undef, requiresJustification |-> FALSE,
     islamicTimeSlot |-> "none", today |-> FALSE,
     durationMinutes |-> 0, atStart |-> FALSE, beforeEnd |-> FALSE, beforeEndMinutes |-> 0]
getById(hs, id) ==
    IF \E i \in 1..Len(hs) : hs[i].id = id
    THEN hs[CHOOSE i \in 1..Len(hs) : hs[i].id = id]
    ELSE NoHabit

getForDay(hs) == LET OnDay(h) == h.today IN SelectSeq(hs, OnDay)
getByTimeSlot(hs, slot) == LET InSlot(h) == h.islamicTimeSlot = slot IN SelectSeq(hs, InSlot)

----------------------------------------------------------------------------
(* ConversationAiService.resolveRelativeDate *)

\* the day of the week of the current date (0 is Sunday): a Monday
TodayWeekday == 1
Weekday(date) == (date + TodayWeekday + 70) % 7

\* expression.toLowerCase().trim()
LowerTrim(word) ==
    CASE word = "Tomorrow " -> "tomorrow"
      [] word = "THURSDAY" -> "thursday"
      [] word = " Monday" -> "monday"
      [] OTHER -> word

\* the Arabic words are written in Latin letters here
englishDays ==
    [w \in {"sunday", "monday", "tuesday", "wednesday", "thursday", "friday", "saturday"} |->
        CASE w = "sunday" -> 0 [] w = "monday" -> 1 [] w = "tuesday" -> 2
          [] w = "wednesday" -> 3 [] w = "thursday" -> 4 [] w = "friday" -> 5
          [] w = "saturday" -> 6]
arabicDays ==
    [w \in {"al-ahad", "ahad", "al-ithnayn", "itnen", "al-ithnen", "al-thulatha", "talat",
            "al-arbia", "arba", "arbaa", "al-khamis", "khamis", "al-juma", "juma",
            "al-sabt", "sabt"} |->
        CASE w \in {"al-ahad", "ahad"} -> 0
          [] w \in {"al-ithnayn", "itnen", "al-ithnen"} -> 1
          [] w \in {"al-thulatha", "talat"} -> 2
          [] w \in {"al-arbia", "arba", "arbaa"} -> 3
          [] w \in {"al-khamis", "khamis"} -> 4
          [] w \in {"al-juma", "juma"} -> 5
          [] w \in {"al-sabt", "sabt"} -> 6]

\* keys that englishDays, a plain object, answers with a value that is not
\* undefined and not a day: what it inherits from Object.prototype
inheritedKeys == {"constructor", "__proto__"}
\* format(nextDay(refDate, day)) for a day that is not a number: the date is
\* invalid and format throws a RangeError; nothing is returned
InvalidTime == -2000

\* date-fns nextDay(date, day): the next date after `date` that falls on `day`
nextDay(date, day) ==
    LET delta == day - Weekday(date)
    IN  date + (IF delta <= 0 THEN delta + 7 ELSE delta)

\* literal dates in one of the accepted formats, with the date they denote
literalDates ==
    [w \in {"2026-02-18", "19/02/2026", "20-02-2026"} |->
        CASE w = "2026-02-18" -> 2 [] w = "19/02/2026" -> 3 [] w = "20-02-2026" -> 4]

\* resolveRelativeDate(expression, referenceDate): the date, or NoDate for null
resolveRelativeDate(expression, referenceDate) ==
    LET normalized == LowerTrim(expression[1])
    IN  CASE normalized \in {"today", "an-naharda", "an-nahardah", "al-yawm"} -> referenceDate
          [] normalized \in {"tomorrow", "bukra", "bukrah", "ghadan", "ghadan~"} ->
                referenceDate + 1
          [] normalized \in {"day after tomorrow", "baad bukrah", "baad bukra", "baad ghad"} ->
                referenceDate + 2
          [] normalized \in {"yesterday", "ambarih", "imbarih", "ams"} -> referenceDate - 1
          [] normalized \in DOMAIN englishDays -> nextDay(referenceDate, englishDays[normalized])
          [] normalized \in inheritedKeys -> InvalidTime
          [] normalized \in DOMAIN arabicDays -> nextDay(referenceDate, arabicDays[normalized])
          [] normalized \in DOMAIN literalDates -> literalDates[normalized]
          [] OTHER -> NoDate

----------------------------------------------------------------------------
(* ConversationService: messages *)

AR_GREETING == S("AR.GREETING")
AR_HELP == S("AR.HELP")
AR_UNKNOWN_INTENT == S("AR.UNKNOWN_INTENT")
AR_ERROR_GENERIC == S("AR.ERROR_GENERIC")
AR_TRANSCRIPTION_FAILED == S("AR.TRANSCRIPTION_FAILED")
AR_HABIT_ASK_JUSTIFICATION == S("AR.HABIT_ASK_JUSTIFICATION")
AR_CONFIRMATION_PROMPT(action) == <<"AR.CONFIRMATION_PROMPT(">> \o action \o <<")">>
AR_HABIT_DONE(name) == <<"AR.HABIT_DONE(">> \o name \o <<")">>
AR_HABIT_SKIPPED(name) == <<"AR.HABIT_SKIPPED(">> \o name \o <<")">>
MSG_CANNOT_IDENTIFY_HABIT == S("cannot identify the habit, please clarify")
MSG_HABIT_NOT_FOUND(habitId) == <<"habit not found: ">> \o habitId
MSG_CANCELLED == S("operation cancelled")
MSG_NOT_IMPLEMENTED == S("feature under development")
MSG_NO_HABITS_TODAY == S("no habits scheduled today")
MSG_NOTHING_TODAY == S("no habits or tasks today")
MSG_BAD_DATE == S("cannot understand that date")
MSG_SHIFTED_TO(d) == <<"task moved to ", ToString(d)>>

----------------------------------------------------------------------------
(* ConversationService: classification results and their serialization *)

IntentTypes ==
    {"greeting", "help", "habit_done", "habit_skipped", "habit_list", "habit_status",
     "task_create", "task_complete", "task_skip", "task_shift", "task_update",
     "task_delete", "task_list", "daily_summary", "weekly_summary",
     "confirmation", "rejection", "image_tag_response", "unclear"}

requiresConfirmationNoSkip(intent) ==
    intent \in {"habit_done", "task_create", "task_complete", "task_skip",
                "task_shift", "task_update", "task_delete"}

requiresConfirmation(intent) ==
    intent \in {"habit_done", "habit_skipped", "task_create", "task_complete",
                "task_skip", "task_shift", "task_update", "task_delete"}

\* a key of a JSON object followed by its value; JSON.stringify leaves out
\* the keys whose value is undefined
JsonField(key, value) == IF value = Undef THEN <<>> ELSE <<key>> \o value

\* JSON.stringify(classified)
JsonStringify(c) ==
    <<"{", "intent", c.intent, "confidence", ToString(c.confidence)>>
        \o JsonField("habitId", c.habitId)
        \o JsonField("justification", c.justification)
        \o JsonField("taskId", c.taskId)
        \o JsonField("taskTitle", c.taskTitle)
        \o JsonField("targetDate", c.targetDate)
        \o JsonField("rawDateExpression", c.rawDateExpression)
        \o JsonField("followUpQuestion", c.followUpQuestion)

\* JSON.parse throws on a string that is not JSON text
IsJson(str) == Len(str) > 0 /\ str[1] = "{"

\* the value of a key of the parsed object, undefined when the key is absent
JsonGet(str, key) ==
    IF \E i \in 1..(Len(str) \div 2) : str[2 * i] = key
    THEN <<str[2 * (CHOOSE i \in 1..(Len(str) \div 2) : str[2 * i] = key) + 1]>>
    ELSE Undef

ParseNumber(str) == CHOOSE n \in 0..100 : ToString(n) = str[1]

\* JSON.parse(state.pendingReference) as ClassifiedIntent
JsonParse(str) ==
    [intent |-> JsonGet(str, "intent")[1],
     confidence |-> ParseNumber(JsonGet(str, "confidence")),
     habitId |-> JsonGet(str, "habitId"),
     justification |-> JsonGet(str, "justification"),
     taskId |-> JsonGet(str, "taskId"),
     taskTitle |-> JsonGet(str, "taskTitle"),
     targetDate |-> JsonGet(str, "targetDate"),
     rawDateExpression |-> JsonGet(str, "rawDateExpression"),
     followUpQuestion |-> JsonGet(str, "followUpQuestion")]

\* entities.x || fallback
OrElse(value, fallback) == IF value = Undef THEN fallback ELSE value

describeAction(c) ==
    CASE c.intent = "habit_done" -> <<"mark done ">> \o OrElse(c.habitId, S("the habit"))
      [] c.intent = "habit_skipped" -> <<"skip ">> \o OrElse(c.habitId, S("the habit"))
      [] c.intent = "task_create" -> <<"add task ">> \o c.taskTitle
      [] c.intent = "task_complete" -> <<"finish task ">> \o c.taskId
      [] c.intent = "task_skip" -> <<"skip task ">> \o c.taskId
      [] c.intent = "task_shift" -> <<"move task ">> \o c.taskId \o <<" to ">>
                                           \o OrElse(c.targetDate, c.rawDateExpression)
      [] c.intent = "task_delete" -> <<"delete task ">> \o c.taskId
      [] OTHER -> S(c.intent)

----------------------------------------------------------------------------
(* ConversationService: intent handlers *)

\* what a handler leaves behind: the state map, the daily logs, the reply it
\* returns, the handlers entered and the storage writes made
Outcome(m, ds, reply, ran, wrote) ==
    [m |-> m, ds |-> ds, reply |-> reply, ran |-> ran, wrote |-> wrote]

\* buildContext: the fields the handlers read
buildContext(hs, slot) ==
    [currentDate |-> Today,
     currentSlot |-> slot,
     activeHabits |-> [i \in 1..Len(getForDay(hs)) |-> getForDay(hs)[i].name]]

\* resolveHabitId: the habit id, or Undef for null
resolveHabitId(hs, c, ctx) ==
    IF c.habitId # Undef THEN c.habitId
    ELSE IF Len(ctx.activeHabits) = 1
    THEN IF \E i \in 1..Len(hs) : hs[i].name = ctx.activeHabits[1]
         THEN hs[CHOOSE i \in 1..Len(hs) :
                    /\ hs[i].name = ctx.activeHabits[1]
                    /\ \A j \in 1..(i - 1) : hs[j].name # ctx.activeHabits[1]].id
         ELSE Undef
    ELSE IF Len(getByTimeSlot(hs, ctx.currentSlot)) = 1
    THEN getByTimeSlot(hs, ctx.currentSlot)[1].id
    ELSE Undef

handleHabitDone(m, ds, hs, id, c, ctx, t) ==
    LET habitId == resolveHabitId(hs, c, ctx)
        habit == getById(hs, habitId)
    IN  IF habitId = Undef
        THEN Outcome(m, ds, MSG_CANNOT_IDENTIFY_HABIT, <<"handleHabitDone">>, <<>>)
        ELSE IF habit = NoHabit
        THEN Outcome(m, ds, MSG_HABIT_NOT_FOUND(habitId), <<"handleHabitDone">>, <<>>)
        ELSE Outcome(m, updateHabitStatus(ds, ctx.currentDate, habitId, "done", Undef, t),
                     AR_HABIT_DONE(habit.name), <<"handleHabitDone">>,
                     <<WriteCall(habitId, "done", Undef)>>)

\* handleHabitSkipped writing the skip whether or not a justification is due
handleHabitSkippedUnasked(m, ds, hs, id, c, ctx, t) ==
    LET habitId == resolveHabitId(hs, c, ctx)
        habit == getById(hs, habitId)
    IN  IF habitId = Undef
        THEN Outcome(m, ds, MSG_CANNOT_IDENTIFY_HABIT, <<"handleHabitSkipped">>, <<>>)
        ELSE IF habit = NoHabit
        THEN Outcome(m, ds, MSG_HABIT_NOT_FOUND(habitId), <<"handleHabitSkipped">>, <<>>)
        ELSE Outcome(m, updateHabitStatus(ds, ctx.currentDate, habitId, "skipped",
                                          c.justification, t),
                     AR_HABIT_SKIPPED(habit.name), <<"handleHabitSkipped">>,
                     <<WriteCall(habitId, "skipped", c.justification)>>)

\* ConversationService.handleHabitSkipped
handleHabitSkipped(m, ds, hs, id, c, ctx, t) ==
    LET habitId == resolveHabitId(hs, c, ctx)
        habit == getById(hs, habitId)
    IN  IF habitId = Undef
        THEN Outcome(m, ds, MSG_CANNOT_IDENTIFY_HABIT, <<"handleHabitSkipped">>, <<>>)
        ELSE IF habit = NoHabit
        THEN Outcome(m, ds, MSG_HABIT_NOT_FOUND(habitId), <<"handleHabitSkipped">>, <<>>)
        ELSE IF habit.requiresJustification /\ c.justification = Undef
        THEN Outcome(SetStateMap(m, id,
                                 [pendingState |-> "awaiting_justification",
                                  pendingReference |-> habitId,
                                  pendingAction |-> <<"skip ">> \o habit.name], t),
                     ds, AR_HABIT_ASK_JUSTIFICATION, <<"handleHabitSkipped">>, <<>>)
        ELSE Outcome(m, updateHabitStatus(ds, ctx.currentDate, habitId, "skipped",
                                          c.justification, t),
                     AR_HABIT_SKIPPED(habit.name), <<"handleHabitSkipped">>,
                     <<WriteCall(habitId, "skipped", c.justification)>>)

\* entry?.status ?? 'pending' for a habit of the day
HabitStatusOn(ds, date, habitId) ==
    IF HabitIndex(ds[date].habits, habitId) = 0 THEN "pending"
    ELSE ds[date].habits[HabitIndex(ds[date].habits, habitId)].status

RECURSIVE HabitLines(_, _, _, _)
HabitLines(ds, date, hl, withSlot) ==
    IF hl = <<>> THEN <<>>
    ELSE <<HabitStatusOn(ds, date, Head(hl).id)>> \o Head(hl).name
            \o (IF withSlot THEN <<Head(hl).islamicTimeSlot>> ELSE <<>>)
            \o HabitLines(ds, date, Tail(hl), withSlot)

handleHabitList(m, ds, hs, id, c, ctx, t) ==
    IF getForDay(hs) = <<>>
    THEN Outcome(m, ds, MSG_NO_HABITS_TODAY, <<"handleHabitList">>, <<>>)
    ELSE Outcome(m, ds, <<"habits today:">> \o HabitLines(ds, ctx.currentDate, getForDay(hs), TRUE),
                 <<"handleHabitList">>, <<>>)

slotOrder ==
    <<"after_fajr", "before_dhuhr", "after_dhuhr", "before_asr", "after_asr",
      "before_maghrib", "after_maghrib", "before_isha", "after_isha">>

RECURSIVE TaskLines(_)
TaskLines(ts) ==
    IF ts = <<>> THEN <<>>
    ELSE <<Head(ts).status>> \o Head(ts).id \o Head(ts).title \o TaskLines(Tail(ts))

\* the tasks section of the daily summary: tasks that are not shifted,
\* grouped by slot in slotOrder
RECURSIVE SlotSections(_, _)
SlotSections(ts, slots) ==
    IF slots = <<>> THEN <<>>
    ELSE LET InSlot(task) == task.islamicTimeSlot = Head(slots)
             slotTasks == SelectSeq(ts, InSlot)
         IN  (IF slotTasks = <<>> THEN <<>> ELSE <<Head(slots)>> \o TaskLines(slotTasks))
                \o SlotSections(ts, Tail(slots))

handleDailySummary(m, ds, hs, id, c, ctx, t) ==
    LET NotShifted(task) == task.status # "shifted"
        tasks == SelectSeq(ds[ctx.currentDate].tasks, NotShifted)
        hl == getForDay(hs)
    IN  Outcome(m, ds,
                <<"summary of day ", ToString(ctx.currentDate)>>
                    \o (IF hl # <<>> THEN <<"habits:">> \o HabitLines(ds, ctx.currentDate, hl, FALSE)
                        ELSE <<>>)
                    \o (IF tasks # <<>> THEN <<"tasks:">> \o SlotSections(tasks, slotOrder)
                        ELSE IF hl = <<>> THEN MSG_NOTHING_TODAY ELSE <<>>),
                <<"handleDailySummary">>, <<>>)

handleUnclear(m, ds, c) ==
    Outcome(m, ds, OrElse(c.followUpQuestion, AR_UNKNOWN_INTENT), <<"handleUnclear">>, <<>>)

handleRejectionKeepsPending(m, ds, id, t) ==
    LET m1 == GetStateMap(m, id, t)
    IN  IF m1[id].pendingState # "idle"
        THEN Outcome(m1, ds, MSG_CANCELLED, <<"handleRejection">>, <<>>)
        ELSE Outcome(m1, ds, AR_UNKNOWN_INTENT, <<"handleRejection">>, <<>>)

handleRejection(m, ds, id, t) ==
    LET m1 == GetStateMap(m, id, t)
    IN  IF m1[id].pendingState # "idle"
        THEN Outcome(ClearPendingMap(m1, id), ds, MSG_CANCELLED, <<"handleRejection">>, <<>>)
        ELSE Outcome(m1, ds, AR_UNKNOWN_INTENT, <<"handleRejection">>, <<>>)

\* the dispatch of executeHandler for every intent but `confirmation`
ExecuteDirect(m, ds, hs, id, c, ctx, t) ==
    CASE c.intent = "greeting" -> Outcome(m, ds, AR_GREETING, <<"handleGreeting">>, <<>>)
      [] c.intent = "help" -> Outcome(m, ds, AR_HELP, <<"handleHelp">>, <<>>)
      [] c.intent = "habit_done" -> handleHabitDone(m, ds, hs, id, c, ctx, t)
      [] c.intent = "habit_skipped" -> handleHabitSkipped(m, ds, hs, id, c, ctx, t)
      [] c.intent \in {"habit_list", "habit_status"} -> handleHabitList(m, ds, hs, id, c, ctx, t)
      [] c.intent \in {"task_create", "task_complete", "task_skip", "task_shift",
                       "task_update", "task_delete", "weekly_summary",
                       "image_tag_response"} ->
            Outcome(m, ds, MSG_NOT_IMPLEMENTED, <<"handleNotImplemented">>, <<>>)
      [] c.intent \in {"task_list", "daily_summary"} -> handleDailySummary(m, ds, hs, id, c, ctx, t)
      [] c.intent = "rejection" -> handleRejection(m, ds, id, t)
      [] c.intent = "unclear" -> handleUnclear(m, ds, c)
      [] OTHER -> Outcome(m, ds, AR_UNKNOWN_INTENT, <<>>, <<>>)

\* handleConfirmation that leaves the pending state as it finds it
handleConfirmationKeepsPending(m, ds, hs, id, ctx, t) ==
    LET m1 == GetStateMap(m, id, t)
        state == m1[id]
    IN  IF state.pendingState # "awaiting_confirmation" \/ state.pendingReference = Undef
        THEN Outcome(m1, ds, AR_UNKNOWN_INTENT, <<"handleConfirmation">>, <<>>)
        ELSE IF ~IsJson(state.pendingReference)
        THEN Outcome(m1, ds, AR_ERROR_GENERIC, <<"handleConfirmation">>, <<>>)
        ELSE LET pendingClassified == JsonParse(state.pendingReference)
                 inner == IF pendingClassified.intent = "confirmation"
                          THEN Outcome(m1, ds, AR_UNKNOWN_INTENT, <<"handleConfirmation">>, <<>>)
                          ELSE ExecuteDirect(m1, ds, hs, id, pendingClassified, ctx, t)
             IN  [inner EXCEPT !.ran = <<"handleConfirmation">> \o @]

\* handleConfirmation; the stored classification goes back through
\* executeHandler, where a stored `confirmation` finds the state idle
handleConfirmation(m, ds, hs, id, ctx, t) ==
    LET m1 == GetStateMap(m, id, t)
        state == m1[id]
    IN  IF state.pendingState # "awaiting_confirmation" \/ state.pendingReference = Undef
        THEN Outcome(m1, ds, AR_UNKNOWN_INTENT, <<"handleConfirmation">>, <<>>)
        ELSE IF ~IsJson(state.pendingReference)
        THEN Outcome(ClearPendingMap(m1, id), ds, AR_ERROR_GENERIC, <<"handleConfirmation">>, <<>>)
        ELSE LET pendingClassified == JsonParse(state.pendingReference)
                 m2 == ClearPendingMap(m1, id)
                 inner == IF pendingClassified.intent = "confirmation"
                          THEN Outcome(m2, ds, AR_UNKNOWN_INTENT, <<"handleConfirmation">>, <<>>)
                          ELSE ExecuteDirect(m2, ds, hs, id, pendingClassified, ctx, t)
             IN  [inner EXCEPT !.ran = <<"handleConfirmation">> \o @]

executeHandler(m, ds, hs, id, c, ctx, t) ==
    IF c.intent = "confirmation"
    THEN handleConfirmation(m, ds, hs, id, ctx, t)
    ELSE ExecuteDirect(m, ds, hs, id, c, ctx, t)

requestConfirmationDescribed(m, ds, id, c, t) ==
    Outcome(SetStateMap(m, id,
                        [pendingState |-> "awaiting_confirmation",
                         pendingReference |-> describeAction(c),
                         pendingAction |-> describeAction(c)], t),
            ds, AR_CONFIRMATION_PROMPT(describeAction(c)), <<>>, <<>>)

\* requestConfirmation(phoneNumber, classified)
requestConfirmation(m, ds, id, c, t) ==
    Outcome(SetStateMap(m, id,
                        [pendingState |-> "awaiting_confirmation",
                         pendingReference |-> JsonStringify(c),
                         pendingAction |-> describeAction(c)], t),
            ds, AR_CONFIRMATION_PROMPT(describeAction(c)), <<>>, <<>>)

GateMediumFirst(m, ds, hs, id, c, ctx, t) ==
    IF c.confidence < CONFIDENCE_MEDIUM /\ requiresConfirmation(c.intent)
    THEN requestConfirmation(m, ds, id, c, t)
    ELSE IF c.confidence < CONFIDENCE_LOW
    THEN Outcome(m, ds, AR_UNKNOWN_INTENT, <<>>, <<>>)
    ELSE executeHandler(m, ds, hs, id, c, ctx, t)

\* the confidence gate of handleText
Gate(m, ds, hs, id, c, ctx, t) ==
    IF c.confidence < CONFIDENCE_LOW
    THEN Outcome(m, ds, AR_UNKNOWN_INTENT, <<>>, <<>>)
    ELSE IF c.confidence < CONFIDENCE_MEDIUM /\ requiresConfirmation(c.intent)
    THEN requestConfirmation(m, ds, id, c, t)
    ELSE executeHandler(m, ds, hs, id, c, ctx, t)

\* handlePendingState: Outcome with reply Undef for a null return.  No code
\* path of handleText calls it.
handlePendingState(m, ds, hs, id, text, ctx, t) ==
    LET m1 == GetStateMap(m, id, t)
        state == m1[id]
        resolved == resolveRelativeDate(text, ctx.currentDate)
    IN  IF state.pendingState = "awaiting_justification" /\ state.pendingReference # Undef
        THEN LET habitId == state.pendingReference
                 habit == getById(hs, habitId)
             IN  Outcome(ClearPendingMap(m1, id),
                         updateHabitStatus(ds, ctx.currentDate, habitId, "skipped", text, t),
                         AR_HABIT_SKIPPED(OrElse(habit.name, habitId)),
                         <<"handlePendingState">>, <<WriteCall(habitId, "skipped", text)>>)
        ELSE IF state.pendingState = "awaiting_shift_date" /\ state.pendingReference # Undef
        THEN IF resolved = NoDate
             THEN Outcome(m1, ds, MSG_BAD_DATE, <<"handlePendingState">>, <<>>)
             ELSE Outcome(ClearPendingMap(m1, id), ds, MSG_SHIFTED_TO(resolved),
                          <<"handlePendingState">>, <<>>)
        ELSE Outcome(m1, ds, Undef, <<"handlePendingState">>, <<>>)

----------------------------------------------------------------------------
(* What the latest operation did *)

\* no classification was made
NoClassified ==
    [intent |-> "none", confidence |-> 0, habitId |-> Undef, justification |-> Undef,
     taskId |-> Undef, taskTitle |-> Undef, targetDate |-> Undef,
     rawDateExpression |-> Undef, followUpQuestion |-> Undef]

\* op: the operation; has: the boolean it returned; classified: what
\* aiService.classify returned to it; ran: the intent handlers it entered, in
\* order; wrote: its PersistenceService write calls; sent: the texts it
\* passed to messaging.sendText
\* rejected: the promise the operation returned rejected; faults: the
\* collaborator calls that threw during it
\* for a task operation: args, its arguments; has, the success it returned;
\* error and task, the error and task of its result; calls, its
\* PersistenceService calls in order
NoRet ==
    [op |-> "none", id |-> "", has |-> FALSE, classified |-> NoClassified,
     ran |-> <<>>, wrote |-> <<>>, sent |-> <<>>,
     args |-> <<>>, error |-> Undef, task |-> NoTask, calls |-> <<>>,
     rejected |-> FALSE, faults |-> {}, value |-> Undef]

TaskRet(op, args, result) ==
    [NoRet EXCEPT !.op = op, !.args = args, !.has = result.success,
                  !.error = result.error, !.task = result.task, !.calls = result.calls]

StoreRet(op, id, has) ==
    [NoRet EXCEPT !.op = op, !.id = id, !.has = has]

\* history variables
LogAdd(a, id, msg) == [a EXCEPT ![id] = Append(@, msg)]
NoStamp == [at |-> NoTime, pendingState |-> "idle"]

----------------------------------------------------------------------------
(* ConversationAiService.classify *)

ESCALATION == 60
DEFAULT_CONFIDENCE == 50
PARSE_FAILURE_CONFIDENCE == 30

\* what one call of openai.chat.completions.create does: it rejects, or it
\* resolves with a content that JSON.parse rejects, or with a JSON object
\* whose confidence is a number in hundredths or is Missing
Missing == 10000
Throws == [kind |-> "throws"]
Unparseable == [kind |-> "unparseable"]
NoEntities ==
    [taskId |-> Undef, rawDateExpression |-> Undef, targetDate |-> Undef, timeSlot |-> "none"]
Json(intent, confidence, entities, followUpQuestion) ==
    [kind |-> "json", intent |-> intent, confidence |-> confidence, entities |-> entities,
     followUpQuestion |-> followUpQuestion]
NoResponse == [kind |-> "none"]

\* intent?.toLowerCase().trim()
LowerTrimIntent(intent) ==
    CASE intent = "Greeting " -> "greeting"
      [] intent = "Hi" -> "hi"
      [] OTHER -> intent

\* normalizeIntent
intentMap ==
    [w \in {"greet", "hi", "hello", "done", "complete", "skip", "shift", "move", "create",
            "add", "new", "delete", "remove", "list", "tasks", "summary", "yes", "confirm",
            "no", "cancel"} |->
        CASE w \in {"greet", "hi", "hello"} -> "greeting"
          [] w = "done" -> "habit_done"
          [] w = "complete" -> "task_complete"
          [] w = "skip" -> "habit_skipped"
          [] w \in {"shift", "move"} -> "task_shift"
          [] w \in {"create", "add", "new"} -> "task_create"
          [] w \in {"delete", "remove"} -> "task_delete"
          [] w \in {"list", "tasks"} -> "task_list"
          [] w = "summary" -> "daily_summary"
          [] w \in {"yes", "confirm"} -> "confirmation"
          [] w \in {"no", "cancel"} -> "rejection"]
normalizeIntent(intent) ==
    LET normalized == LowerTrimIntent(intent)
    IN  IF normalized \in IntentTypes THEN normalized
        ELSE IF normalized \in DOMAIN intentMap THEN intentMap[normalized]
        ELSE "unclear"

Max(a, b) == IF a > b THEN a ELSE b

\* raw.confidence ?? 0.5 with no clamping
ConfidenceOrDefault(confidence) ==
    IF confidence = Missing THEN DEFAULT_CONFIDENCE ELSE confidence

\* Math.max(0, Math.min(1, raw.confidence ?? 0.5))
ClampConfidence(confidence) ==
    Max(0, Min(100, IF confidence = Missing THEN DEFAULT_CONFIDENCE ELSE confidence))

\* a ClassifiedIntent; wasEscalated is FALSE when the property is absent
ClassifiedIntent(intent, confidence, entities, followUpQuestion) ==
    [intent |-> intent, confidence |-> confidence, entities |-> entities,
     followUpQuestion |-> followUpQuestion, wasEscalated |-> FALSE]

\* parseClassificationResponse
parseClassificationResponse(raw) ==
    ClassifiedIntent(normalizeIntent(raw.intent), ClampConfidence(raw.confidence),
                     raw.entities, raw.followUpQuestion)

AI_NOT_UNDERSTOOD == S("AI_NOT_UNDERSTOOD")
AI_ERROR == S("AI_ERROR")

\* callClassificationModel for a call that resolves
callClassificationModel(response) ==
    IF response.kind = "unparseable"
    THEN ClassifiedIntent("unclear", PARSE_FAILURE_CONFIDENCE, NoEntities, AI_NOT_UNDERSTOOD)
    ELSE parseClassificationResponse(response)

\* the number of digits in a string of digit fragments
RECURSIVE DigitCount(_)
DigitCount(digits) ==
    IF digits = <<>> THEN 0 ELSE DigitsOf(Head(digits)).len + DigitCount(Tail(digits))
AllDigits(str) == str # <<>> /\ \A i \in 1..Len(str) : DigitsOf(str[i]).val # NaN

\* match[1].padStart(3, '0')
PadDigits3(digits) ==
    (CASE DigitCount(digits) = 1 -> <<"00">>
       [] DigitCount(digits) = 2 -> <<"0">>
       [] OTHER -> <<>>) \o digits

\* ConversationAiService.normalizeTaskId
aiNormalizeTaskId(taskId) ==
    IF AllDigits(taskId) THEN taskId
    ELSE IF StripT(taskId) # taskId /\ AllDigits(StripT(taskId))
    THEN <<"t-">> \o PadDigits3(StripT(taskId))
    ELSE taskId

\* normalizeTimeSlot: slot.toLowerCase().trim().replace(/\s+/g, '_'), then
\* the slot itself or its entry in slotMap, "none" for undefined
IslamicTimeSlots ==
    {"after_fajr", "before_dhuhr", "after_dhuhr", "before_asr", "after_asr",
     "before_maghrib", "after_maghrib", "before_isha", "after_isha"}
normalizeTimeSlot(slot) ==
    LET normalized == CASE slot = "After Fajr" -> "after_fajr"
                        [] slot = " as-subh" -> "as-subh"
                        [] OTHER -> slot
    IN  IF normalized \in IslamicTimeSlots THEN normalized
        ELSE IF normalized = "as-subh" THEN "after_fajr"
        ELSE "none"

\* the date a resolved expression is written as
IsoDate(date) == <<"date", ToString(date)>>

\* normalizeEntities(entities, context)
normalizeEntities(entities, currentDate) ==
    LET resolved == resolveRelativeDate(entities.rawDateExpression, currentDate)
    IN  [timeSlot |-> IF entities.timeSlot # "none" THEN normalizeTimeSlot(entities.timeSlot)
                      ELSE "none",
         rawDateExpression |-> entities.rawDateExpression,
         targetDate |-> IF entities.rawDateExpression # Undef /\ entities.targetDate = Undef
                           /\ resolved # NoDate
                        THEN IsoDate(resolved) ELSE entities.targetDate,
         taskId |-> IF entities.taskId # Undef THEN aiNormalizeTaskId(entities.taskId)
                    ELSE Undef]

\* escalatedResult.confidence >= result.confidence
AtLeastAsConfident(escalated, result) == escalated.confidence >= result.confidence

\* escalatedResult.confidence > result.confidence
MoreConfident(escalated, result) == escalated.confidence > result.confidence

\* the condition of the escalation
Escalates(result) == result.confidence < ESCALATION /\ result.intent # "unclear"

\* what classify returns from its catch block
ClassificationFailed == ClassifiedIntent("unclear", 0, NoEntities, AI_ERROR)

\* the outcome of a classify call: the models called, the responses they
\* gave, the result returned, whether the call rejected
AiOutcome(calls, first, second, result, threw) ==
    [calls |-> calls, first |-> first, second |-> second, result |-> result, threw |-> threw]

\* classify with no catch block
classifyRethrows(first, second, currentDate) ==
    LET result == callClassificationModel(first)
        escalated == [callClassificationModel(second) EXCEPT !.wasEscalated = TRUE]
        Normalized(r) == [r EXCEPT !.entities = normalizeEntities(@, currentDate)]
    IN  IF first.kind = "throws"
        THEN AiOutcome(<<"FAST">>, first, NoResponse, ClassificationFailed, TRUE)
        ELSE IF ~Escalates(result)
        THEN AiOutcome(<<"FAST">>, first, NoResponse, Normalized(result), FALSE)
        ELSE IF second.kind = "throws"
        THEN AiOutcome(<<"FAST", "CAPABLE">>, first, second, ClassificationFailed, TRUE)
        ELSE AiOutcome(<<"FAST", "CAPABLE">>, first, second,
                       Normalized(IF MoreConfident(escalated, result) THEN escalated
                                  ELSE result), FALSE)

\* classify(message, context): first is what the call of the fast model
\* does, second what a call of the capable model does
classify(first, second, currentDate) ==
    LET result == callClassificationModel(first)
        escalated == [callClassificationModel(second) EXCEPT !.wasEscalated = TRUE]
        Normalized(r) == [r EXCEPT !.entities = normalizeEntities(@, currentDate)]
    IN  IF first.kind = "throws"
        THEN AiOutcome(<<"FAST">>, first, NoResponse, ClassificationFailed, FALSE)
        ELSE IF ~Escalates(result)
        THEN AiOutcome(<<"FAST">>, first, NoResponse, Normalized(result), FALSE)
        ELSE IF second.kind = "throws"
        THEN AiOutcome(<<"FAST", "CAPABLE">>, first, second, ClassificationFailed, FALSE)
        ELSE AiOutcome(<<"FAST", "CAPABLE">>, first, second,
                       Normalized(IF MoreConfident(escalated, result) THEN escalated
                                  ELSE result), FALSE)

\* no classify call was made
NoAi ==
    AiOutcome(<<>>, NoResponse, NoResponse, ClassifiedIntent("none", 0, NoEntities, Undef), FALSE)

\* the ClassifiedIntent as the router reads it
AsClassified(r) ==
    [intent |-> r.intent, confidence |-> r.confidence, habitId |-> Undef,
     justification |-> Undef, taskId |-> r.entities.taskId, taskTitle |-> Undef,
     targetDate |-> r.entities.targetDate, rawDateExpression |-> r.entities.rawDateExpression,
     followUpQuestion |-> r.followUpQuestion]

----------------------------------------------------------------------------
(* ReminderService *)

\* prayerTimeService.getSlotTime(slot, date): the start of the slot on the
\* clock of the model
getSlotTime(slot) ==
    CASE slot = "after_fajr" -> 2
      [] slot = "after_asr" -> 4
      [] OTHER -> 6

\* setTimeout(callback, delay) at time t: a new armed timer, whose handle is
\* its index; `cancelled` is a history field, set when cancelAllReminders
\* finds the timer in the scheduled list
setTimeout(tm, habit, type, delay, t) ==
    Append(tm, [habit |-> habit, type |-> type, due |-> t + delay, state |-> "armed",
                cancelled |-> FALSE])

\* clearTimeout(handle): an armed timer will never call back
clearTimeout(timer) ==
    IF timer.state = "armed" THEN [timer EXCEPT !.state = "cleared"] ELSE timer

\* the scheduled list and the timers of the service
Reminders(scheduled, tm) == [scheduled |-> scheduled, timers |-> tm]

scheduleReminder(rs, habit, type, scheduledTime, delay, t) ==
    Reminders(Append(rs.scheduled,
                     [habitId |-> habit.id, habitName |-> habit.name, type |-> type,
                      scheduledTime |-> scheduledTime, timeout |-> Len(rs.timers) + 1]),
              setTimeout(rs.timers, habit, type, delay, t))

scheduleHabitReminders(rs, habit, t) ==
    LET slotStartTime == getSlotTime(habit.islamicTimeSlot)
        slotEndTime == slotStartTime + habit.durationMinutes
        startDelay == slotStartTime - t
        started == IF habit.atStart /\ startDelay > 0
                   THEN scheduleReminder(rs, habit, "start", slotStartTime, startDelay, t)
                   ELSE rs
        beforeEndTime == slotEndTime - habit.beforeEndMinutes
        beforeEndDelay == beforeEndTime - t
    IN  IF habit.beforeEnd /\ beforeEndDelay > 0
        THEN scheduleReminder(started, habit, "before_end", beforeEndTime, beforeEndDelay, t)
        ELSE started

\* the scheduled entries hold the timer of handle h
Listed(scheduled, h) == \E i \in 1..Len(scheduled) : scheduled[i].timeout = h

\* cancelAllReminders: clearTimeout for every scheduled entry, then the
\* list is emptied
cancelAllReminders(rs) ==
    Reminders(<<>>, [h \in DOMAIN rs.timers |->
                        IF Listed(rs.scheduled, h)
                        THEN [clearTimeout(rs.timers[h]) EXCEPT !.cancelled = TRUE]
                        ELSE rs.timers[h]])

\* the loop of scheduleDailyReminders over the habits of the day
RECURSIVE ScheduleEach(_, _, _)
ScheduleEach(rs, hl, t) ==
    IF hl = <<>> THEN rs
    ELSE ScheduleEach(scheduleHabitReminders(rs, Head(hl), t), Tail(hl), t)

\* scheduleDailyReminders without the cancelling of the earlier reminders
scheduleDailyRemindersOnTop(rs, hs, t) ==
    ScheduleEach(rs, getForDay(hs), t)

scheduleDailyReminders(rs, hs, t) ==
    ScheduleEach(cancelAllReminders(rs), getForDay(hs), t)

\* fireReminder(habit, type): the entry leaves the scheduled list
fireReminder(scheduled, habit, type) ==
    LET Other(r) == ~(r.habitId = habit.id /\ r.type = type)
    IN  SelectSeq(scheduled, Other)

----------------------------------------------------------------------------
(* Operations of the state store *)

GetState(id) ==
    /\ states' = GetStateMap(states, id, now)
    /\ ret' = StoreRet("getState", id, FALSE)
    /\ UNCHANGED <<reminderVars, fileVars, flight, ai, now, days, habits, turns, added, stamp>>

SetState(id, upd) ==
    /\ states' = SetStateMap(states, id, upd, now)
    /\ ret' = StoreRet("setState", id, FALSE)
    /\ stamp' = IF upd.pendingState \in {"undefined", "idle"}
                THEN [stamp EXCEPT ![id] = NoStamp]
                ELSE [stamp EXCEPT ![id] = [at |-> now, pendingState |-> upd.pendingState]]
    /\ UNCHANGED <<reminderVars, fileVars, flight, ai, now, days, habits, turns, added>>

ClearPendingState(id) ==
    /\ states' = ClearPendingMap(states, id)
    /\ ret' = StoreRet("clearPendingState", id, FALSE)
    /\ stamp' = [stamp EXCEPT ![id] = NoStamp]
    /\ UNCHANGED <<reminderVars, fileVars, flight, ai, now, days, habits, turns, added>>

AddMessage(id, role, content) ==
    /\ states' = AddMessageMap(states, id, role, content, now)
    /\ ret' = StoreRet("addMessage", id, FALSE)
    /\ added' = LogAdd(added, id, [role |-> role, content |-> content, timestamp |-> now])
    /\ UNCHANGED <<reminderVars, fileVars, flight, ai, now, days, habits, turns, stamp>>

HasPendingState(id) ==
    /\ states' = GetStateMap(states, id, now)
    /\ ret' = StoreRet("hasPendingState", id, HasPendingResult(states, id, now))
    /\ UNCHANGED <<reminderVars, fileVars, flight, ai, now, days, habits, turns, added, stamp>>

\* TaskService.create(date, entities)
Create(date, taskTitle, taskDescription, timeSlot) ==
    /\ days' = TaskCreated(days, date, taskTitle, taskDescription, timeSlot, now)
    /\ ret' = StoreRet("create", "", taskTitle # Undef)
    /\ UNCHANGED <<reminderVars, fileVars, flight, ai, states, now, habits, turns, added, stamp>>

\* TaskService.complete(date, taskId)
Complete(date, taskId) ==
    /\ days' = complete(days, date, taskId, now).ds
    /\ ret' = TaskRet("complete", <<date, taskId>>, complete(days, date, taskId, now))
    /\ UNCHANGED <<reminderVars, fileVars, flight, ai, states, now, habits, turns, added, stamp>>

\* TaskService.delete(date, taskId)
Delete(date, taskId) ==
    /\ days' = delete(days, date, taskId).ds
    /\ ret' = TaskRet("delete", <<date, taskId>>, delete(days, date, taskId))
    /\ UNCHANGED <<reminderVars, fileVars, flight, ai, states, now, habits, turns, added, stamp>>

\* TaskService.skip(date, taskId, justification)
Skip(date, taskId, justification) ==
    /\ days' = skip(days, date, taskId, justification, now).ds
    /\ ret' = TaskRet("skip", <<date, taskId, justification>>,
                      skip(days, date, taskId, justification, now))
    /\ UNCHANGED <<reminderVars, fileVars, flight, ai, states, now, habits, turns, added, stamp>>

\* TaskService.shift(date, taskId, targetDate, reason) in a process whose
\* time zone is west of UTC or not
Shift(date, taskId, targetDate, reason, west) ==
    /\ days' = shift(days, date, taskId, targetDate, reason, west, now).ds
    /\ ret' = TaskRet("shift", <<date, taskId, targetDate, reason, west>>,
                      shift(days, date, taskId, targetDate, reason, west, now))
    /\ UNCHANGED <<reminderVars, fileVars, flight, ai, states, now, habits, turns, added, stamp>>

\* TaskService.shift(date, taskId, targetDate, reason) while the storage
\* calls named in faults throw
ShiftFailing(date, taskId, targetDate, reason, west, faults) ==
    LET Leaves(result) ==
            /\ days' = result.ds
            /\ ret' = [TaskRet("shift", <<date, taskId, targetDate, reason, west>>, result)
                          EXCEPT !.rejected = result.rejected,
                                 !.faults = IF result.rejected THEN faults ELSE {}]
    IN  /\ Leaves(shiftFailing(days, date, taskId, targetDate, reason, west, faults, now))
        /\ UNCHANGED <<reminderVars, fileVars, flight, ai, states, now, habits, turns, added, stamp>>

\* ConversationAiService.classify(message, context), the two model calls
\* doing what first and second say
Classify(first, second) ==
    /\ ai' = classify(first, second, Today)
    /\ ret' = StoreRet("classifyMessage", "", FALSE)
    /\ UNCHANGED <<reminderVars, fileVars, flight, states, now, days, habits, turns, added, stamp>>

\* handleText(phoneNumber, text) with no collaborator failing: classified is
\* what aiService.classify returns, slot what prayerTimeService.getCurrentSlot
\* returns
HandleText(id, text, classified, slot) ==
    LET m1 == AddMessageMap(states, id, "user", text, now)
        ctx == buildContext(habits, slot)
        out == Gate(m1, days, habits, id, classified, ctx, now)
        m2 == AddMessageMap(out.m, id, "assistant", out.reply, now)
        before == StateOrInitial(states, id)
        after == m2[id]
    IN  /\ states' = m2
        /\ days' = out.ds
        /\ turns' = turns + 1
        /\ ret' = [NoRet EXCEPT !.op = "handleText", !.id = id,
                                !.classified = classified, !.ran = out.ran,
                                !.wrote = out.wrote, !.sent = <<out.reply>>]
        /\ added' = LogAdd(LogAdd(added, id, [role |-> "user", content |-> text,
                                              timestamp |-> now]),
                           id, [role |-> "assistant", content |-> out.reply,
                                timestamp |-> now])
        /\ stamp' = IF after.pendingState # "idle" /\ after.pendingSetAt = now
                    THEN [stamp EXCEPT ![id] = [at |-> now, pendingState |-> after.pendingState]]
                    ELSE IF after.pendingState = before.pendingState
                            /\ after.pendingSetAt = before.pendingSetAt
                    THEN stamp
                    ELSE [stamp EXCEPT ![id] = NoStamp]
        /\ UNCHANGED <<reminderVars, fileVars, flight, ai, now, habits>>

\* handleText where aiService.classify returns what the latest classify
\* call returned
HandleTextClassified(id, text, slot) ==
    /\ ai.calls # <<>>
    /\ HandleText(id, text, AsClassified(ai.result), slot)

\* the history variable stamp after a step that took the state of id from
\* `before` to `after`
StampAfter(id, before, after) ==
    IF after.pendingState # "idle" /\ after.pendingSetAt = now
    THEN [stamp EXCEPT ![id] = [at |-> now, pendingState |-> after.pendingState]]
    ELSE IF after.pendingState = before.pendingState
            /\ after.pendingSetAt = before.pendingSetAt
    THEN stamp
    ELSE [stamp EXCEPT ![id] = NoStamp]

\* the handler that produced this outcome called PersistenceService: the
\* habit handlers write a status, the habit list and the daily summary read
\* the day
CallsStorage(out) ==
    \/ out.wrote # <<>>
    \/ \E i \in 1..Len(out.ran) : out.ran[i] = "handleDailySummary"
    \/ /\ \E i \in 1..Len(out.ran) : out.ran[i] = "handleHabitList"
       /\ out.reply # MSG_NO_HABITS_TODAY

\* what one handleText call leaves: the state map, the daily logs, the
\* handlers entered, the storage writes that succeeded, the texts passed to
\* sendText, whether the returned promise rejected and whether the response
\* was added to the history
Turned(m, ds, ran, wrote, sent, rejected) ==
    [m |-> m, ds |-> ds, ran |-> ran, wrote |-> wrote, sent |-> sent, rejected |-> rejected,
     replied |-> FALSE, threw |-> {}]

\* the catch block of handleText that sends nothing
CaughtSilently(m, ds, ran, sent, faults) ==
    Turned(m, ds, ran, <<>>, sent, FALSE)

\* the catch block of handleText: the exception is logged and the generic
\* error reply is sent; a sendText that throws here rejects handleText
Caught(m, ds, ran, sent, faults) ==
    Turned(m, ds, ran, <<>>, sent \o <<AR_ERROR_GENERIC>>, "sendError" \in faults)

\* handleText(phoneNumber, text) where the calls named in faults throw:
\* buildContext ("context"), aiService.classify ("classify"), the
\* PersistenceService call of the handler ("storage"), sendText of the
\* response ("send"), sendText of the error reply ("sendError").  A
\* PersistenceService call that throws leaves the daily logs as they were;
\* no handler changes the conversation state after that call.
handleText(m, ds, hs, id, text, classified, slot, faults, t) ==
    LET Failing(turned, call) ==
            [turned EXCEPT !.threw = {call} \cup (IF turned.rejected THEN {"sendError"} ELSE {})]
        \* after the user message is recorded (m1) and, when context and
        \* classification are there, the gate and the handler have run (out)
        Recorded(m1, out) ==
            IF "context" \in faults
            THEN Failing(Caught(m1, ds, <<>>, <<>>, faults), "context")
            ELSE IF "classify" \in faults
            THEN Failing(Caught(m1, ds, <<>>, <<>>, faults), "classify")
            ELSE IF "storage" \in faults /\ CallsStorage(out)
            THEN Failing(Caught(out.m, ds, out.ran, <<>>, faults), "storage")
            ELSE IF "send" \in faults
            THEN Failing(Caught(out.m, out.ds, out.ran, <<out.reply>>, faults), "send")
            ELSE [Turned(AddMessageMap(out.m, id, "assistant", out.reply, t), out.ds, out.ran,
                         out.wrote, <<out.reply>>, FALSE) EXCEPT !.replied = TRUE]
    IN  Recorded(AddMessageMap(m, id, "user", text, t),
                 Gate(AddMessageMap(m, id, "user", text, t), ds, hs, id, classified,
                      buildContext(hs, slot), t))

\* a handleText call in which collaborators may throw
HandleTextFaults(id, text, classified, slot, faults) ==
    LET Leaves(turned) ==
            /\ states' = turned.m
            /\ days' = turned.ds
            /\ turns' = turns + 1
            /\ ret' = [NoRet EXCEPT !.op = "handleText", !.id = id, !.classified = classified,
                                    !.ran = turned.ran, !.wrote = turned.wrote,
                                    !.sent = turned.sent, !.rejected = turned.rejected,
                                    !.faults = turned.threw]
            /\ added' = [added EXCEPT ![id] =
                            @ \o <<[role |-> "user", content |-> text, timestamp |-> now]>>
                              \o (IF turned.replied
                                  THEN <<[role |-> "assistant", content |-> turned.sent[1],
                                          timestamp |-> now]>>
                                  ELSE <<>>)]
            /\ stamp' = StampAfter(id, StateOrInitial(states, id), turned.m[id])
            /\ UNCHANGED <<reminderVars, fileVars, flight, ai, now, habits>>
    IN  Leaves(handleText(states, days, habits, id, text, classified, slot, faults, now))

\* a TranscriptionResult: success and text (Undef for the empty string)
Transcription(success, text) == [success |-> success, text |-> text]

\* handleText entered by handleAudio: when it rejects, the catch block of
\* handleAudio sends the transcription-failed reply, which throws as well
\* while sendText is failing
ReEntered(turned) ==
    IF turned.rejected
    THEN [turned EXCEPT !.sent = @ \o <<AR_TRANSCRIPTION_FAILED>>]
    ELSE turned

TranscriptionFailedSilent(m, ds, faults, threw) ==
    IF "send" \in faults
    THEN [Turned(m, ds, <<>>, <<>>, <<AR_TRANSCRIPTION_FAILED, AR_TRANSCRIPTION_FAILED>>,
                 "sendError" \in faults)
          EXCEPT !.threw = {"send"} \cup (IF "sendError" \in faults THEN {"sendError"} ELSE {})]
    ELSE [Turned(m, ds, <<>>, <<>>, <<>>, FALSE) EXCEPT !.threw = threw]

\* the reply of handleAudio when there is no transcription: sendText throws
\* when "send" is in faults, and the catch block then sends the reply again,
\* which throws when "sendError" is in faults
TranscriptionFailed(m, ds, faults, threw) ==
    IF "send" \in faults
    THEN [Turned(m, ds, <<>>, <<>>, <<AR_TRANSCRIPTION_FAILED, AR_TRANSCRIPTION_FAILED>>,
                 "sendError" \in faults)
          EXCEPT !.threw = {"send"} \cup (IF "sendError" \in faults THEN {"sendError"} ELSE {})]
    ELSE [Turned(m, ds, <<>>, <<>>, <<AR_TRANSCRIPTION_FAILED>>, FALSE) EXCEPT !.threw = threw]

\* handleAudio that re-enters as text whenever there is a text
handleAudioAnyText(m, ds, hs, id, transcription, classified, slot, faults, t) ==
    IF "download" \in faults \/ "transcribe" \in faults
    THEN [Turned(m, ds, <<>>, <<>>, <<AR_TRANSCRIPTION_FAILED>>, "sendError" \in faults)
          EXCEPT !.threw = (faults \cap {"download", "transcribe", "sendError"})]
    ELSE IF transcription.text = Undef
    THEN TranscriptionFailed(m, ds, faults, {})
    ELSE ReEntered(handleText(m, ds, hs, id, transcription.text, classified, slot, faults, t))

\* handleAudio(phoneNumber, mediaHandle, duration): transcription is what
\* sttService.transcribe resolves with; downloadMedia ("download") and
\* transcribe ("transcribe") may throw
handleAudio(m, ds, hs, id, transcription, classified, slot, faults, t) ==
    IF "download" \in faults \/ "transcribe" \in faults
    THEN [Turned(m, ds, <<>>, <<>>, <<AR_TRANSCRIPTION_FAILED>>, "sendError" \in faults)
          EXCEPT !.threw = (faults \cap {"download", "transcribe", "sendError"})]
    ELSE IF ~transcription.success \/ transcription.text = Undef
    THEN TranscriptionFailed(m, ds, faults, {})
    ELSE ReEntered(handleText(m, ds, hs, id, transcription.text, classified, slot, faults, t))

\* a handleAudio call
HandleAudio(id, transcription, classified, slot, faults) ==
    LET Leaves(turned) ==
            /\ states' = turned.m
            /\ days' = turned.ds
            /\ turns' = turns + 1
            /\ ret' = [NoRet EXCEPT !.op = "handleAudio", !.id = id,
                                    !.args = <<transcription>>,
                                    !.classified = IF turned.m = states THEN NoClassified
                                                   ELSE classified,
                                    !.ran = turned.ran, !.wrote = turned.wrote,
                                    !.sent = turned.sent, !.rejected = turned.rejected,
                                    !.faults = turned.threw]
            /\ added' = IF turned.m = states THEN added
                        ELSE [added EXCEPT ![id] =
                                @ \o <<[role |-> "user", content |-> transcription.text,
                                        timestamp |-> now]>>
                                  \o (IF turned.replied
                                      THEN <<[role |-> "assistant", content |-> turned.sent[1],
                                              timestamp |-> now]>>
                                      ELSE <<>>)]
            /\ stamp' = IF turned.m = states THEN stamp
                        ELSE StampAfter(id, StateOrInitial(states, id), turned.m[id])
            /\ UNCHANGED <<reminderVars, fileVars, flight, ai, now, habits>>
    IN  Leaves(handleAudio(states, days, habits, id, transcription, classified, slot,
                           faults, now))

\* sequence seq without its k-th element
RemoveAt(seq, k) == SubSeq(seq, 1, k - 1) \o SubSeq(seq, k + 1, Len(seq))

\* ConversationListenerService.handleTextMessage: the emitter calls it for
\* each inbound text; it runs handleText up to its first await, so the user
\* message is recorded and the call is suspended in buildContext / classify
HandleTextMessage(id, text) ==
    LET m1 == AddMessageMap(states, id, "user", text, now)
    IN  /\ states' = m1
        /\ flight' = Append(flight, [id |-> id, text |-> text, pc |-> "classify",
                                     response |-> Undef])
        /\ turns' = turns + 1
        /\ ret' = [NoRet EXCEPT !.op = "handleTextMessage", !.id = id]
        /\ added' = LogAdd(added, id, [role |-> "user", content |-> text, timestamp |-> now])
        /\ stamp' = StampAfter(id, StateOrInitial(states, id), m1[id])
        /\ UNCHANGED <<reminderVars, fileVars, now, days, habits, ai>>

\* handleText resumes when aiService.classify resolves: the confidence gate
\* and the handler run, and the call is suspended in messaging.sendText
ClassifyResolves(k, classified, slot) ==
    LET id == flight[k].id
        out == Gate(states, days, habits, id, classified, buildContext(habits, slot), now)
    IN  /\ flight[k].pc = "classify"
        /\ states' = out.m
        /\ days' = out.ds
        /\ flight' = [flight EXCEPT ![k].pc = "send", ![k].response = out.reply]
        /\ ret' = [NoRet EXCEPT !.op = "classify", !.id = id, !.classified = classified,
                                !.ran = out.ran, !.wrote = out.wrote]
        /\ stamp' = StampAfter(id, StateOrInitial(states, id), out.m[id])
        /\ UNCHANGED <<reminderVars, fileVars, now, habits, turns, added, ai>>

\* handleText resumes when messaging.sendText resolves: the reply is
\* recorded and the call ends
SendTextResolves(k) ==
    LET id == flight[k].id
        m1 == AddMessageMap(states, id, "assistant", flight[k].response, now)
    IN  /\ flight[k].pc = "send"
        /\ states' = m1
        /\ flight' = RemoveAt(flight, k)
        /\ ret' = [NoRet EXCEPT !.op = "sendText", !.id = id, !.sent = <<flight[k].response>>]
        /\ added' = LogAdd(added, id, [role |-> "assistant", content |-> flight[k].response,
                                       timestamp |-> now])
        /\ stamp' = StampAfter(id, StateOrInitial(states, id), m1[id])
        /\ UNCHANGED <<reminderVars, fileVars, now, days, habits, turns, ai>>

\* the clock advances by d minutes
Tick(d) ==
    /\ now + d <= MaxTime
    /\ now' = now + d
    /\ ret' = NoRet
    /\ UNCHANGED <<reminderVars, fileVars, flight, ai, states, days, habits, turns, added, stamp>>

\* a call of TaskService.normalizeTaskId, as complete, skip, shift and the
\* other task operations make on the reference they are given
NormalizeTaskId(taskId) ==
    /\ ret' = [NoRet EXCEPT !.op = "normalizeTaskId", !.args = <<taskId>>,
                            !.value = normalizeTaskId(taskId)]
    /\ UNCHANGED <<reminderVars, fileVars, flight, ai, states, now, days, habits, turns, added, stamp>>

\* a call of ConversationAiService.normalizeTaskId, as normalizeEntities
\* makes on the taskId entity
AiNormalizeTaskId(taskId) ==
    /\ ret' = [NoRet EXCEPT !.op = "aiNormalizeTaskId", !.args = <<taskId>>,
                            !.value = aiNormalizeTaskId(taskId)]
    /\ UNCHANGED <<reminderVars, fileVars, flight, ai, states, now, days, habits, turns, added, stamp>>

\* TaskService.findSimilarInWeek(currentDate, taskTitle): baseDate is
\* new Date(currentDate), midnight UTC, and the days scanned are the local
\* days format() gives around it; west: the process runs west of UTC
FindSimilarInWeek(currentDate, taskTitle, west) ==
    /\ ret' = [NoRet EXCEPT !.op = "findSimilarInWeek",
                            !.args = <<currentDate, taskTitle, west>>,
                            !.value = findSimilarInWeek(days, LocalDayOf(currentDate, west),
                                                        taskTitle)]
    /\ UNCHANGED <<reminderVars, fileVars, flight, ai, states, now, days, habits, turns, added, stamp>>

\* a call of resolveRelativeDate
ResolveRelativeDate(expression, referenceDate) ==
    /\ ret' = [NoRet EXCEPT !.op = "resolveRelativeDate",
                            !.args = <<expression, referenceDate>>,
                            !.value = resolveRelativeDate(expression, referenceDate)]
    /\ UNCHANGED <<reminderVars, fileVars, flight, ai, states, now, days, habits, turns, added, stamp>>

\* ReminderService.scheduleDailyReminders(), at start-up and from the
\* midnight cron
ScheduleDailyReminders ==
    LET Leaves(rs) ==
            /\ scheduledReminders' = rs.scheduled
            /\ timers' = rs.timers
    IN  /\ Leaves(scheduleDailyReminders(Reminders(scheduledReminders, timers), habits, now))
        /\ ret' = [NoRet EXCEPT !.op = "scheduleDailyReminders"]
        /\ UNCHANGED <<fileVars, flight, ai, states, now, days, habits, turns, added, stamp>>

\* ReminderService.cancelAllReminders(), also called by onModuleDestroy
CancelAllReminders ==
    LET Leaves(rs) ==
            /\ scheduledReminders' = rs.scheduled
            /\ timers' = rs.timers
    IN  /\ Leaves(cancelAllReminders(Reminders(scheduledReminders, timers)))
        /\ ret' = [NoRet EXCEPT !.op = "cancelAllReminders"]
        /\ UNCHANGED <<fileVars, flight, ai, states, now, days, habits, turns, added, stamp>>

\* the timer of handle h calls back, at its due time or later: fireReminder
\* runs for its habit and type
TimerFires(h) ==
    /\ timers[h].state = "armed"
    /\ timers[h].due <= now
    /\ timers' = [timers EXCEPT ![h].state = "fired"]
    /\ scheduledReminders' = fireReminder(scheduledReminders, timers[h].habit, timers[h].type)
    /\ ret' = [NoRet EXCEPT !.op = "fireReminder", !.args = <<h>>]
    /\ UNCHANGED <<fileVars, flight, ai, states, now, days, habits, turns, added, stamp>>

\* PersistenceService.addTask(date, task) is called and runs to its first
\* await, inside loadDay: with the day cached loadDay returns the cached
\* object, otherwise it is suspended in readJsonFile
AddTaskCalled(date, task) ==
    /\ storing' = Append(storing, [date |-> date, task |-> task,
                               pc |-> IF cache[date] # 0 THEN "loaded" ELSE "reading",
                               log |-> cache[date], content |-> <<>>, newTask |-> NoTask])
    /\ ret' = [NoRet EXCEPT !.op = "addTaskCalled", !.args = <<Len(storing) + 1>>]
    /\ UNCHANGED <<reminderVars, heap, cache, files, flight, ai, states, now, days, habits,
                   turns, added, stamp>>

\* readJsonFile resolves for call k: with no file loadDay builds an empty
\* log and is suspended in saveDay, whose atomicWrite has serialized it;
\* with a file it builds the log object of the content and caches it
ReadJsonFileResolves(k) ==
    LET date == storing[k].date
        dailyLog == IF files[date] = <<>> THEN createEmptyDailyLog ELSE files[date][1]
    IN  /\ storing[k].pc = "reading"
        /\ heap' = Append(heap, dailyLog)
        /\ IF files[date] = <<>>
           THEN /\ storing' = [storing EXCEPT ![k].pc = "creating", ![k].log = Len(heap) + 1,
                                          ![k].content = <<dailyLog>>]
                /\ cache' = cache
           ELSE /\ storing' = [storing EXCEPT ![k].pc = "loaded", ![k].log = Len(heap) + 1]
                /\ cache' = [cache EXCEPT ![date] = Len(heap) + 1]
        /\ ret' = [NoRet EXCEPT !.op = "readJsonFile", !.args = <<k>>]
        /\ UNCHANGED <<reminderVars, files, flight, ai, states, now, days, habits, turns,
                       added, stamp>>

\* the atomicWrite of the empty log resolves for call k: the file is
\* renamed into place, saveDay and loadDay cache the object
CreatedDayResolves(k) ==
    /\ storing[k].pc = "creating"
    /\ files' = [files EXCEPT ![storing[k].date] = storing[k].content]
    /\ cache' = [cache EXCEPT ![storing[k].date] = storing[k].log]
    /\ storing' = [storing EXCEPT ![k].pc = "loaded"]
    /\ ret' = [NoRet EXCEPT !.op = "createDay", !.args = <<k>>]
    /\ UNCHANGED <<reminderVars, heap, flight, ai, states, now, days, habits, turns, added,
                   stamp>>

\* loadDay resolves for call k: addTask takes the id from the log object,
\* increments its counter, pushes the entry and is suspended in saveDay,
\* whose atomicWrite has serialized the object
LoadDayResolves(k) ==
    LET log == storing[k].log
        pushed == addTask(heap, log, storing[k].task, now)
    IN  /\ storing[k].pc = "loaded"
        /\ heap' = pushed
        /\ storing' = [storing EXCEPT ![k].pc = "saving", ![k].content = <<pushed[log]>>,
                                  ![k].newTask = TaskEntryOf(heap[log], storing[k].task, now)]
        /\ ret' = [NoRet EXCEPT !.op = "loadDay", !.args = <<k>>]
        /\ UNCHANGED <<reminderVars, cache, files, flight, ai, states, now, days, habits,
                       turns, added, stamp>>

\* the atomicWrite of saveDay resolves for call k: the serialized content is
\* renamed into place, the object is cached and addTask returns the entry
SaveDayResolves(k) ==
    /\ storing[k].pc = "saving"
    /\ files' = [files EXCEPT ![storing[k].date] = storing[k].content]
    /\ cache' = [cache EXCEPT ![storing[k].date] = storing[k].log]
    /\ storing' = [storing EXCEPT ![k].pc = "returned"]
    /\ ret' = [NoRet EXCEPT !.op = "addTask", !.args = <<k>>, !.task = storing[k].newTask]
    /\ UNCHANGED <<reminderVars, heap, flight, ai, states, now, days, habits, turns, added,
                   stamp>>

----------------------------------------------------------------------------
(* Specifications *)

Init ==
    /\ states = <<>>
    /\ now = 0
    /\ days = [d \in Dates |-> createEmptyDailyLog]
    /\ habits \in HabitConfigs
    /\ turns = 0
    /\ ret = NoRet
    /\ added = [id \in Ids |-> <<>>]
    /\ stamp = [id \in Ids |-> NoStamp]
    /\ flight = <<>>
    /\ ai = NoAi
    /\ scheduledReminders = <<>>
    /\ timers = <<>>
    /\ heap = <<>>
    /\ cache = [d \in Dates |-> 0]
    /\ files = [d \in Dates |-> <<>>]
    /\ storing = <<>>

StoreIds == {"A"}
StoreUpdates ==
    [pendingState : {"undefined", "idle", "awaiting_justification"},
     pendingReference : {Undef, S("quran-reading")},
     pendingAction : {Undef}]

\* the state store alone, driven through its public operations
NextStore ==
    \/ \E id \in StoreIds : GetState(id)
    \/ \E id \in StoreIds, upd \in StoreUpdates : SetState(id, upd)
    \/ \E id \in StoreIds : ClearPendingState(id)
    \/ \E id \in StoreIds, role \in Roles :
          Len(added[id]) < StoreAdds /\ AddMessage(id, role, S("hello"))
    \/ \E id \in StoreIds : HasPendingState(id)
    \/ Tick(1)

SpecStore == Init /\ [][NextStore]_vars

Classified(intent, confidence, habitId, justification, taskId, taskTitle, followUp) ==
    [intent |-> intent, confidence |-> confidence, habitId |-> habitId,
     justification |-> justification, taskId |-> taskId, taskTitle |-> taskTitle,
     targetDate |-> Undef, rawDateExpression |-> Undef, followUpQuestion |-> followUp]

Plain(intent, confidence) == Classified(intent, confidence, Undef, Undef, Undef, Undef, Undef)
Habit(intent, confidence, habitId, justification) ==
    Classified(intent, confidence, habitId, justification, Undef, Undef, Undef)
Task(intent, confidence) ==
    Classified(intent, confidence, Undef, Undef, S("1"), S("buy vegetables"), Undef)
Turn(c, slot) == [c |-> c, slot |-> slot]

HabitIntents == {"habit_done", "habit_skipped"}
TaskIntents == {"task_create", "task_complete", "task_skip", "task_shift",
                "task_update", "task_delete"}
OtherIntents == IntentTypes \ (HabitIntents \cup TaskIntents)

\* what one turn may receive from the classifier and the prayer-time
\* service: every intent on both sides of each confidence threshold
TurnInputs ==
    {Turn(Plain(i, 29), "after_fajr") : i \in OtherIntents}
    \cup {Turn(Plain(i, 30), "after_fajr") :
            i \in OtherIntents \ {"habit_status", "task_list", "image_tag_response"}}
    \cup {Turn(Classified(i, 30, Undef, Undef, Undef, Undef, S("which one?")), "after_fajr") :
            i \in {"unclear", "greeting"}}
    \cup {Turn(Plain("confirmation", c), "after_fajr") : c \in {59, 85}}
    \cup {Turn(Plain("rejection", 85), "after_fajr")}
    \cup {Turn(Task(i, c), "after_fajr") : i \in TaskIntents, c \in {29, 59}}
    \cup {Turn(Task(i, 60), "after_fajr") : i \in {"task_create", "task_delete"}}
    \cup {Turn(Task("task_create", c), "after_fajr") : c \in {30, 85}}
    \cup {Turn(Habit("habit_done", c, S("quran-reading"), Undef), "after_fajr") :
            c \in {29, 30, 59, 60, 84, 85}}
    \cup {Turn(Habit("habit_skipped", c, S("quran-reading"), Undef), "after_fajr") :
            c \in {29, 30, 59, 60}}
    \cup {Turn(Habit("habit_done", c, S("exercise"), Undef), "after_fajr") : c \in {59, 85}}
    \cup {Turn(Habit("habit_skipped", 85, S("exercise"), Undef), "after_fajr")}
    \cup {Turn(Habit("habit_skipped", c, S("quran-reading"), S("sick")), "after_fajr") :
            c \in {59, 85}}
    \cup {Turn(Habit("habit_done", 85, Undef, Undef), slot) :
            slot \in {"after_fajr", "after_dhuhr"}}
    \cup {Turn(Habit("habit_skipped", 85, Undef, Undef), "after_fajr")}
    \cup {Turn(Habit("habit_done", 85, S("unknown-habit"), Undef), "after_fajr")}

Texts == {S("tomorrow")}
RouterIds == {"A"}

\* the router driven by inbound text messages, one turn at a time
NextRouter ==
    \/ /\ turns < MaxTurns
       /\ \E id \in RouterIds, text \in Texts, in \in TurnInputs :
             HandleText(id, text, in.c, in.slot)
    \/ Tick(pendingExpiryMin + 1)

SpecRouter == Init /\ [][NextRouter]_vars

HistoryUpdates ==
    {[pendingState |-> "awaiting_justification",
      pendingReference |-> S("quran-reading"),
      pendingAction |-> Undef]}

AssistantCount(log) == Cardinality({i \in 1..Len(log) : log[i].role = "assistant"})

\* the state store under a long run of addMessage calls
NextHistory ==
    \/ \E id \in StoreIds, role \in Roles :
          /\ Len(added[id]) < MaxAdds
          /\ role = "assistant" => AssistantCount(added[id]) < MaxAssistant
          /\ AddMessage(id, role, S("hello"))
    \/ \E id \in StoreIds : GetState(id)
    \/ \E id \in StoreIds, upd \in HistoryUpdates : SetState(id, upd)
    \/ \E id \in StoreIds : ClearPendingState(id)
    \/ \E id \in StoreIds : HasPendingState(id)
    \/ Tick(pendingExpiryMin + 1)

SpecHistory == Init /\ [][NextHistory]_vars

ApiUpdates ==
    {[pendingState |-> "awaiting_shift_date", pendingReference |-> S("1"),
      pendingAction |-> Undef],
     [pendingState |-> "awaiting_justification", pendingReference |-> S("quran-reading"),
      pendingAction |-> Undef],
     [pendingState |-> "awaiting_duplicate_confirmation",
      pendingReference |-> <<"{", "taskTitle", "buy vegetables">>,
      pendingAction |-> S("add task")]}

ApiTitles == {S("Buy  vegetables!"), S("buy fresh vegetables"), Undef}
ApiDates == {Today - 4, Today, Today + 3}
ApiTexts == {S("tomorrow"), S("hello")}
ApiInputs ==
    {Turn(Task("task_create", c), "after_fajr") : c \in {59, 85}}
    \cup {Turn(Task("task_shift", 85), "after_fajr"),
          Turn(Plain("confirmation", 85), "after_fajr"),
          Turn(Plain("rejection", 85), "after_fajr"),
          Turn(Plain("unclear", 30), "after_fajr")}

TaskCount == Len(days[Today - 4].tasks) + Len(days[Today].tasks) + Len(days[Today + 3].tasks)

\* the router together with the services that tests and other callers
\* drive directly
NextApi ==
    \/ /\ TaskCount < MaxTasks
       /\ \E date \in ApiDates, title \in ApiTitles : Create(date, title, Undef, "none")
    \/ \E id \in RouterIds, upd \in ApiUpdates : SetState(id, upd)
    \/ /\ turns < ApiTurns
       /\ \E id \in RouterIds, text \in ApiTexts, in \in ApiInputs :
             HandleText(id, text, in.c, in.slot)
    \/ Tick(pendingExpiryMin + 1)

SpecApi == Init /\ [][NextApi]_vars

\* the task operations as their callers drive them
TaskTitles == {S("buy vegetables")}
TaskDescriptions == {Undef, S("from the market")}
TaskRefs == {S("1"), S("t-1"), <<"t-", "00", "2">>, S("abc")}
TaskReasons == {Undef, S("busy")}

TaskDays == {Today}

NextTask ==
    \/ /\ TaskCount < TaskCap
       /\ \E date \in TaskDays, title \in TaskTitles, description \in TaskDescriptions :
             Create(date, title, description, "none")
    \/ \E date \in TaskDays, ref \in TaskRefs : Complete(date, ref)
    \/ \E date \in TaskDays, ref \in TaskRefs, justification \in TaskReasons :
          Skip(date, ref, justification)
    \/ \E date \in TaskDays, ref \in TaskRefs, target \in ApiDates, reason \in TaskReasons,
          west \in BOOLEAN :
          /\ Shift(date, ref, target, reason, west)
          /\ TaskCount' <= TaskCap

SpecTask == Init /\ [][NextTask]_vars

\* the two task reference normalizers on every reference of up to MaxRefLen
\* fragments
MaxRefLen == 3
RefFragments == {"t-", "T-", "t", "00", "1", "2", "abc"}
References == UNION {[1..n -> RefFragments] : n \in 1..MaxRefLen}

\* the reference a caller holds, before it is normalized
Given(args) == [NoRet EXCEPT !.args = args]
InitNormalize ==
    /\ states = <<>>
    /\ now = 0
    /\ days = [d \in Dates |-> createEmptyDailyLog]
    /\ habits \in HabitConfigs
    /\ turns = 0
    /\ ret \in {Given(<<taskId>>) : taskId \in References}
    /\ added = [id \in Ids |-> <<>>]
    /\ stamp = [id \in Ids |-> NoStamp]
    /\ flight = <<>>
    /\ ai = NoAi
    /\ scheduledReminders = <<>>
    /\ timers = <<>>
    /\ heap = <<>>
    /\ cache = [d \in Dates |-> 0]
    /\ files = [d \in Dates |-> <<>>]
    /\ storing = <<>>

NextNormalize ==
    \/ ret.op = "none" /\ NormalizeTaskId(ret.args[1])
    \/ ret.op = "none" /\ AiNormalizeTaskId(ret.args[1])

SpecNormalize == InitNormalize /\ [][NextNormalize]_vars

\* resolveRelativeDate on every expression it knows, on some it does not,
\* and on every reference date
Expressions ==
    {"today", "an-naharda", "tomorrow", "Tomorrow ", "bukra", "day after tomorrow",
     "baad bukra", "yesterday", "ambarih", "THURSDAY", " Monday", "2026-02-18",
     "19/02/2026", "gibberish", "", "next week", "constructor"}
    \cup DOMAIN englishDays \cup DOMAIN arabicDays
InitResolve ==
    /\ states = <<>>
    /\ now = 0
    /\ days = [d \in Dates |-> createEmptyDailyLog]
    /\ habits \in HabitConfigs
    /\ turns = 0
    /\ ret \in {Given(<<S(expression), referenceDate>>) :
                    expression \in Expressions, referenceDate \in Dates}
    /\ added = [id \in Ids |-> <<>>]
    /\ stamp = [id \in Ids |-> NoStamp]
    /\ flight = <<>>
    /\ ai = NoAi
    /\ scheduledReminders = <<>>
    /\ timers = <<>>
    /\ heap = <<>>
    /\ cache = [d \in Dates |-> 0]
    /\ files = [d \in Dates |-> <<>>]
    /\ storing = <<>>

NextResolve == ret.op = "none" /\ ResolveRelativeDate(ret.args[1], ret.args[2])

SpecResolve == InitResolve /\ [][NextResolve]_vars

\* the duplicate search over days that tasks were added to and completed on
SimilarTasks == 2
SimilarTitles ==
    {S("buy vegetables"), S("buy fresh vegetables"), S("buy fresh green vegetables")}
SimilarQueries == {S("buy vegetables"), S("buy fresh vegetables")}
SimilarDays == {Today - 1, Today, Today + 1}
SimilarRefs == {S("1"), <<"t-", "00", "2">>}

NextSimilar ==
    \/ /\ TaskCount < SimilarTasks
       /\ \E date \in ApiDates, title \in SimilarTitles : Create(date, title, Undef, "none")
    \/ \E date \in ApiDates, ref \in SimilarRefs : Complete(date, ref)
    \/ \E currentDate \in SimilarDays, title \in SimilarQueries, west \in BOOLEAN :
          FindSimilarInWeek(currentDate, title, west)

SpecSimilar == Init /\ [][NextSimilar]_vars

\* the operations that add, change and remove the tasks of two days, until
\* a day has given out MaxIds ids
MaxIds == 2
IdDays == {Today, Today + 3}
IdRefs == {S("1"), <<"t-", "00", "2">>}

NextIds ==
    \/ /\ days[Today].nextTaskId <= MaxIds
       /\ Create(Today, S("buy vegetables"), Undef, "none")
    \/ Complete(Today, S("1"))
    \/ \E date \in IdDays, ref \in IdRefs : Delete(date, ref)
    \/ \E ref \in IdRefs, west \in BOOLEAN :
          /\ days[Today + 3].nextTaskId <= MaxIds
          /\ Shift(Today, ref, Today + 3, Undef, west)

SpecIds == Init /\ [][NextIds]_vars

\* two conversations: the store's operations on either, and inbound texts
\* of either handled by overlapping calls of handleText
IsolationUpdates ==
    {[pendingState |-> "awaiting_justification", pendingReference |-> S("quran-reading"),
      pendingAction |-> Undef]}
IsolationInputs ==
    {Turn(Habit("habit_skipped", 59, S("quran-reading"), S("sick")), "after_fajr")}

NextIsolation ==
    \/ \E id \in Ids : GetState(id)
    \/ \E id \in Ids, upd \in IsolationUpdates : SetState(id, upd)
    \/ \E id \in Ids : ClearPendingState(id)
    \/ \E id \in Ids :
          Len(added[id]) < StoreAdds /\ AddMessage(id, "assistant", S("hello"))
    \/ \E id \in Ids : HasPendingState(id)
    \/ /\ turns < MaxEvents
       /\ \E id \in Ids : HandleTextMessage(id, S("hello"))
    \/ \E k \in 1..Len(flight), in \in IsolationInputs : ClassifyResolves(k, in.c, in.slot)
    \/ \E k \in 1..Len(flight) : SendTextResolves(k)

SpecIsolation == Init /\ [][NextIsolation]_vars

\* what the model calls of classify may do
FullEntities ==
    [taskId |-> S("t-1"), rawDateExpression |-> S("tomorrow"), targetDate |-> Undef,
     timeSlot |-> "After Fajr"]
RawIntents == {"habit_done", "greeting", "unclear", "Hi", "bogus"}
RawConfidences == {-20, 30, 59, 60, 150, Missing}
Responses ==
    {Throws, Unparseable}
    \cup {Json(i, c, NoEntities, Undef) : i \in RawIntents, c \in RawConfidences}
    \cup {Json("habit_done", c, FullEntities, S("which habit?")) : c \in {59, 85}}

NextClassify == \E first, second \in Responses : Classify(first, second)

SpecClassify == Init /\ [][NextClassify]_vars

\* classify and the router that calls it
RouterResponses ==
    {Throws, Unparseable, Json("greeting", 85, NoEntities, Undef),
     Json("habit_done", 20, NoEntities, Undef), Json("help", 59, NoEntities, Undef)}

NextClassifyRouter ==
    \/ \E first, second \in RouterResponses : Classify(first, second)
    \/ /\ turns < ApiTurns
       /\ \E id \in RouterIds, text \in ApiTexts : HandleTextClassified(id, text, "after_fajr")
    \/ Tick(pendingExpiryMin + 1)

SpecClassifyRouter == Init /\ [][NextClassifyRouter]_vars

\* turns in which collaborators fail
FaultInputs ==
    {Turn(Habit("habit_done", 85, S("quran-reading"), Undef), "after_fajr"),
     Turn(Habit("habit_skipped", 59, S("quran-reading"), S("sick")), "after_fajr"),
     Turn(Plain("confirmation", 85), "after_fajr"),
     Turn(Plain("daily_summary", 85), "after_fajr"),
     Turn(Plain("greeting", 85), "after_fajr")}
FaultSets ==
    {{}, {"context"}, {"classify"}, {"storage"}, {"send"}, {"send", "sendError"},
     {"storage", "sendError"}, {"classify", "sendError"}}

NextFaults ==
    \/ /\ turns < MaxTurns
       /\ \E id \in RouterIds, text \in Texts, in \in FaultInputs, faults \in FaultSets :
             HandleTextFaults(id, text, in.c, in.slot, faults)
    \/ Tick(pendingExpiryMin + 1)

SpecFaults == Init /\ [][NextFaults]_vars

\* voice notes
Transcriptions ==
    {Transcription(TRUE, S("tomorrow")), Transcription(FALSE, Undef),
     Transcription(FALSE, S("tomorrow")), Transcription(TRUE, Undef)}
AudioInputs ==
    {Turn(Habit("habit_skipped", 85, S("quran-reading"), Undef), "after_fajr"),
     Turn(Habit("habit_done", 85, S("quran-reading"), Undef), "after_fajr"),
     Turn(Plain("greeting", 85), "after_fajr")}
AudioFaults ==
    {{}, {"download"}, {"transcribe"}, {"classify"}, {"send"}, {"send", "sendError"},
     {"transcribe", "sendError"}}

NextAudio ==
    \/ /\ turns < MaxTurns
       /\ \E id \in RouterIds, tr \in Transcriptions, in \in AudioInputs, faults \in AudioFaults :
             HandleAudio(id, tr, in.c, in.slot, faults)
    \/ Tick(pendingExpiryMin + 1)

SpecAudio == Init /\ [][NextAudio]_vars

\* typed messages and voice notes in one conversation
NextReplies ==
    \/ /\ turns < MaxTurns
       /\ \E id \in RouterIds, text \in Texts, in \in FaultInputs, faults \in FaultSets :
             HandleTextFaults(id, text, in.c, in.slot, faults)
    \/ /\ turns < MaxTurns
       /\ \E id \in RouterIds, tr \in Transcriptions, in \in AudioInputs, faults \in AudioFaults :
             HandleAudio(id, tr, in.c, in.slot, faults)
    \/ Tick(pendingExpiryMin + 1)

SpecReplies == Init /\ [][NextReplies]_vars

ListenerInputs ==
    {Turn(Habit("habit_done", 85, S("quran-reading"), Undef), "after_fajr"),
     Turn(Habit("habit_skipped", 59, S("quran-reading"), S("sick")), "after_fajr"),
     Turn(Plain("confirmation", 85), "after_fajr"),
     Turn(Plain("greeting", 29), "after_fajr")}

\* inbound text events delivered to the listener, each handled by its own
\* asynchronous call of handleText
NextListener ==
    \/ /\ turns < MaxEvents
       /\ \E id \in Ids, text \in Texts : HandleTextMessage(id, text)
    \/ \E k \in 1..Len(flight), in \in ListenerInputs : ClassifyResolves(k, in.c, in.slot)
    \/ \E k \in 1..Len(flight) : SendTextResolves(k)
    \/ Tick(pendingExpiryMin + 1)

SpecListener == Init /\ [][NextListener]_vars

\* confirmations racing for one stored action: every action is stored by a
\* medium-confidence turn and executed only through a confirmation
RaceEvents == 3
RaceInputs ==
    {Turn(Habit("habit_done", 59, S("quran-reading"), Undef), "after_fajr"),
     Turn(Habit("habit_skipped", 59, S("quran-reading"), Undef), "after_fajr"),
     Turn(Plain("confirmation", 85), "after_fajr")}

NextRace ==
    \/ /\ turns < RaceEvents
       /\ \E id \in RouterIds, text \in Texts : HandleTextMessage(id, text)
    \/ \E k \in 1..Len(flight), in \in RaceInputs : ClassifyResolves(k, in.c, in.slot)
    \/ \E k \in 1..Len(flight) : SendTextResolves(k)

SpecRace == Init /\ [][NextRace]_vars

\* the state store driven by its callers and by the router together:
\* setState with every kind of partial update
PayloadTurns == 1
PayloadUpdates ==
    [pendingState : {"undefined", "idle", "awaiting_justification"},
     pendingReference : {Undef, S("quran-reading")},
     pendingAction : {Undef, S("skip the habit")}]
PayloadInputs ==
    {Turn(Habit("habit_done", 59, S("quran-reading"), Undef), "after_fajr"),
     Turn(Habit("habit_skipped", 85, S("quran-reading"), Undef), "after_fajr"),
     Turn(Plain("confirmation", 85), "after_fajr"),
     Turn(Plain("rejection", 85), "after_fajr")}

NextPayload ==
    \/ \E id \in RouterIds : GetState(id)
    \/ \E id \in RouterIds, upd \in PayloadUpdates : SetState(id, upd)
    \/ \E id \in RouterIds : ClearPendingState(id)
    \/ \E id \in RouterIds, role \in Roles :
          Len(added[id]) < StoreAdds /\ AddMessage(id, role, S("hello"))
    \/ /\ turns < PayloadTurns
       /\ \E id \in RouterIds, text \in Texts, in \in PayloadInputs :
             HandleText(id, text, in.c, in.slot)
    \/ Tick(pendingExpiryMin + 1)

SpecPayload == Init /\ [][NextPayload]_vars

\* shifts while the storage may fail
ShiftFaults == {{}, {"updateTask"}, {"addTask"}}

NextShiftFailing ==
    \/ /\ TaskCount < TaskCap
       /\ \E title \in TaskTitles, description \in TaskDescriptions :
             Create(Today, title, description, "none")
    \/ \E ref \in TaskRefs, justification \in TaskReasons : Skip(Today, ref, justification)
    \/ \E ref \in TaskRefs, target \in ApiDates, reason \in TaskReasons, faults \in ShiftFaults :
          /\ ShiftFailing(Today, ref, target, reason, FALSE, faults)
          /\ TaskCount' <= TaskCap

SpecShiftFailing == Init /\ [][NextShiftFailing]_vars

\* addTask calls on one day that overlap at their awaits
MaxCalls == 3

\* the first call of a run is without a description, so that the later
\* calls can differ from it
CallDescriptions(k) == IF k = 1 THEN {Undef} ELSE TaskDescriptions

NextAddTask ==
    \/ /\ Len(storing) < MaxCalls
       /\ \E title \in TaskTitles, description \in CallDescriptions(Len(storing) + 1) :
            AddTaskCalled(Today, NewTask(title, description, "none", NoDate))
    \/ \E k \in 1..Len(storing) : ReadJsonFileResolves(k)
    \/ \E k \in 1..Len(storing) : CreatedDayResolves(k)
    \/ \E k \in 1..Len(storing) : LoadDayResolves(k)
    \/ \E k \in 1..Len(storing) : SaveDayResolves(k)

SpecAddTask == Init /\ [][NextAddTask]_vars

\* the reminder service: rescheduling, cancelling, timers calling back and
\* the clock
MaxTimers == 6

NextReminder ==
    \/ /\ Len(timers) < MaxTimers
       /\ ScheduleDailyReminders
    \/ CancelAllReminders
    \/ \E h \in 1..Len(timers) : TimerFires(h)
    \/ Tick(1)

SpecReminder == Init /\ [][NextReminder]_vars

----------------------------------------------------------------------------
(* Claims about the state store *)

\* C1: pending-state expiry.  When the latest setState(id, ..) call set a
\* non-idle pendingState s at time T and no clearPendingState followed, a
\* getState(id) or hasPendingState(id) more than pendingExpiryMin minutes
\* after T returns idle with reference, action and timestamp cleared (and
\* false); one at most pendingExpiryMin minutes after T still reports s (and
\* true).
C1_PendingExpiry ==
    \A id \in Ids :
        (ret.op \in {"getState", "hasPendingState"} /\ ret.id = id /\ stamp[id].at # NoTime) =>
            IF now - stamp[id].at > pendingExpiryMin
            THEN /\ states[id].pendingState = "idle"
                 /\ states[id].pendingReference = Undef
                 /\ states[id].pendingAction = Undef
                 /\ states[id].pendingSetAt = NoTime
                 /\ ret.op = "hasPendingState" => ~ret.has
            ELSE /\ states[id].pendingState = stamp[id].pendingState
                 /\ ret.op = "hasPendingState" => ret.has

C1_Witness ==
    \E id \in Ids :
        /\ ret.op = "getState" /\ ret.id = id
        /\ stamp[id].pendingState = "awaiting_justification"
        /\ now - stamp[id].at = pendingExpiryMin + 1
        /\ states[id].pendingState = "idle"

C1_WitnessStillPending ==
    \E id \in Ids :
        /\ ret.op = "hasPendingState" /\ ret.id = id /\ ret.has
        /\ stamp[id].pendingState = "awaiting_justification"
        /\ now - stamp[id].at = pendingExpiryMin

\* C2: history cap.  After n addMessage calls for an id, interleaved with
\* any other store operations, recentMessages is exactly the last
\* min(n, maxRecentMessages) added messages, oldest first.
C2_HistoryCap ==
    \A id \in Ids :
        LET n == Len(added[id])
            kept == IF id \in DOMAIN states THEN states[id].recentMessages ELSE <<>>
        IN  /\ Len(kept) = Min(n, maxRecentMessages)
            /\ \A i \in 1..Len(kept) : kept[i] = added[id][n - Len(kept) + i]

C2_Witness ==
    \E id \in Ids :
        /\ ret.op = "addMessage" /\ ret.id = id
        /\ Len(added[id]) = maxRecentMessages + 1
        /\ added[id][1].role = "assistant"
        /\ Len(states[id].recentMessages) = maxRecentMessages
        /\ \A i \in 1..maxRecentMessages : states[id].recentMessages[i].role = "user"

----------------------------------------------------------------------------
(* Claims about the confidence gate of handleText *)

\* the intents the claims call mutating
MutatingIntents ==
    {"habit_done", "habit_skipped", "task_create", "task_complete", "task_skip",
     "task_shift", "task_update", "task_delete"}

\* the conversation state as getState reports it when the turn starts
Before(id) == GetStateMap(states, id, now)[id]

\* the text of the user message of the turn just made
TurnText(id) == added'[id][Len(added'[id]) - 1].content

\* C3: confirmation tier.  A turn whose classification is a mutating intent
\* with 0.6 <= confidence < 0.85 enters no handler and writes nothing to
\* storage; it sets pendingState to awaiting_confirmation, stores the
\* serialized classification in pendingReference and a description in
\* pendingAction, and replies with the confirmation prompt.
C3_ConfirmationTier ==
    [][(/\ ret'.op = "handleText"
        /\ ret'.classified.intent \in MutatingIntents
        /\ ret'.classified.confidence >= 60
        /\ ret'.classified.confidence < 85) =>
            /\ ret'.ran = <<>>
            /\ ret'.wrote = <<>>
            /\ days' = days
            /\ states'[ret'.id].pendingState = "awaiting_confirmation"
            /\ states'[ret'.id].pendingAction # Undef
            /\ JsonParse(states'[ret'.id].pendingReference) = ret'.classified
            /\ ret'.sent = <<AR_CONFIRMATION_PROMPT(states'[ret'.id].pendingAction)>>]_vars

C5_LowestTier ==
    [][(ret'.op = "handleText" /\ ret'.classified.confidence < 30) =>
            /\ ret'.sent = <<AR_UNKNOWN_INTENT>>
            /\ ret'.ran = <<>>
            /\ ret'.wrote = <<>>
            /\ days' = days
            /\ states'[ret'.id].pendingState = Before(ret'.id).pendingState
            /\ states'[ret'.id].pendingReference = Before(ret'.id).pendingReference
            /\ states'[ret'.id].pendingAction = Before(ret'.id).pendingAction]_vars

C5_Witness ==
    /\ ret.op = "handleText"
    /\ ret.classified.intent = "habit_done"
    /\ ret.classified.confidence = 29
    /\ turns = 2
    /\ states[ret.id].pendingState = "awaiting_confirmation"
    /\ JsonParse(states[ret.id].pendingReference).intent = "task_delete"
    /\ ret.sent = <<AR_UNKNOWN_INTENT>>

\* C6: low-quality non-mutating tier.  A turn whose classification is not a
\* mutating intent and has 0.3 <= confidence < 0.6 enters no handler; the
\* reply is the classification's followUpQuestion when there is one and the
\* unknown-intent message otherwise.
C6_LowQualityNonMutating ==
    [][(/\ ret'.op = "handleText"
        /\ ret'.classified.intent \notin MutatingIntents
        /\ ret'.classified.confidence >= 30
        /\ ret'.classified.confidence < 60) =>
            /\ ret'.ran = <<>>
            /\ ret'.sent = <<OrElse(ret'.classified.followUpQuestion, AR_UNKNOWN_INTENT)>>]_vars

----------------------------------------------------------------------------
(* Claims about pending confirmations and justifications *)

\* what handleConfirmation must leave behind when it replays the stored
\* classification of the turn's conversation: the dispatch of the stored
\* intent applied after the pending state is cleared
Replayed(id, slot) ==
    LET m1 == ClearPendingMap(AddMessageMap(states, id, "user", TurnText(id), now), id)
    IN  ExecuteDirect(m1, days, habits, id, JsonParse(Before(id).pendingReference),
                      buildContext(habits, slot), now)

ReplayDone(id) ==
    \E slot \in {"after_fajr", "after_dhuhr"} :
        /\ ret'.ran = <<"handleConfirmation">> \o Replayed(id, slot).ran
        /\ ret'.wrote = Replayed(id, slot).wrote
        /\ ret'.sent = <<Replayed(id, slot).reply>>
        /\ days' = Replayed(id, slot).ds
        /\ states'[id].pendingState # "awaiting_confirmation"

RejectDone(id) ==
    /\ ret'.ran = <<"handleRejection">>
    /\ ret'.wrote = <<>>
    /\ days' = days
    /\ ret'.sent = <<MSG_CANCELLED>>
    /\ states'[id].pendingState = "idle"
    /\ states'[id].pendingReference = Undef

C7_WitnessRejected ==
    /\ ret.op = "handleText"
    /\ ret.classified.intent = "rejection"
    /\ ret.ran = <<"handleRejection">>
    /\ ret.sent = <<MSG_CANCELLED>>
    /\ turns = 2
    /\ added[ret.id][2].content[1] = "AR.CONFIRMATION_PROMPT("
    /\ states[ret.id].pendingState = "idle"
    /\ days[Today].habits = <<>>

----------------------------------------------------------------------------
(* Claims about task follow-ups *)

\* C9: shift-date follow-up.  A turn that starts with pendingState =
\* awaiting_shift_date and pendingReference = task reference r passes the text
\* to resolveRelativeDate; when it resolves to a date d the shift of r from
\* the current day to d is performed and pendingState is idle; when it does
\* not resolve, nothing is written, pendingState stays awaiting_shift_date
\* with the same reference, and the reply asks for the date again.
C9_ShiftDateFollowUp ==
    [][(/\ ret'.op = "handleText"
        /\ Before(ret'.id).pendingState = "awaiting_shift_date"
        /\ Before(ret'.id).pendingReference # Undef) =>
            LET d == resolveRelativeDate(TurnText(ret'.id), Today)
            IN  IF d # NoDate
                THEN /\ ret'.wrote = <<[call |-> "shift", date |-> Today,
                                        taskId |-> Before(ret'.id).pendingReference,
                                        targetDate |-> d]>>
                     /\ states'[ret'.id].pendingState = "idle"
                ELSE /\ ret'.wrote = <<>>
                     /\ days' = days
                     /\ states'[ret'.id].pendingState = "awaiting_shift_date"
                     /\ states'[ret'.id].pendingReference = Before(ret'.id).pendingReference
                     /\ ret'.sent = <<MSG_BAD_DATE>>]_vars

\* C10: duplicate-task guard.  When a task_create classification reaches a
\* handler and findSimilarInWeek has a match for its title, no task is
\* created in the turn; pendingState becomes awaiting_duplicate_confirmation
\* with the create entities serialized in pendingReference.
C10_DuplicateTaskGuard ==
    [][(/\ ret'.op = "handleText"
        /\ ret'.classified.intent = "task_create"
        /\ ret'.ran # <<>>
        /\ findSimilarInWeek(days, Today, ret'.classified.taskTitle) # NoSimilar) =>
            /\ days' = days
            /\ states'[ret'.id].pendingState = "awaiting_duplicate_confirmation"
            /\ JsonGet(states'[ret'.id].pendingReference, "taskTitle")
                  = ret'.classified.taskTitle]_vars

\* C11: duplicate confirmation outcome.  A turn that starts with
\* pendingState = awaiting_duplicate_confirmation holding the stored create
\* entities E: when it is classified as confirmation, exactly one task is
\* created, with the title of E; when it is classified as rejection, no task
\* is created, the reply is the duplicate-cancelled message and pendingState
\* is idle.
C11_DuplicateConfirmationOutcome ==
    [][(/\ ret'.op = "handleText"
        /\ Before(ret'.id).pendingState = "awaiting_duplicate_confirmation"
        /\ Before(ret'.id).pendingReference # Undef
        /\ ret'.classified.intent \in {"confirmation", "rejection"}
        /\ ret'.classified.confidence >= 60) =>
            IF ret'.classified.intent = "confirmation"
            THEN /\ Len(days'[Today].tasks) = Len(days[Today].tasks) + 1
                 /\ days'[Today].tasks[Len(days'[Today].tasks)].title
                       = JsonGet(Before(ret'.id).pendingReference, "taskTitle")
                 /\ \A d \in Dates \ {Today} : days'[d] = days[d]
            ELSE /\ days' = days
                 /\ ret'.sent = <<"AR.TASK_DUPLICATE_CANCELLED">>
                 /\ states'[ret'.id].pendingState = "idle"]_vars

----------------------------------------------------------------------------
(* Claims about the handling of concurrent messages *)

\* C12: per-conversation serialization.  The handling of one message of a
\* conversation id runs to completion before the handling of the next
\* message of the same id starts: no two handleText calls of the same id are
\* ever in progress together.
C12_PerConversationSerialization ==
    \A j, k \in 1..Len(flight) : flight[j].id = flight[k].id => j = k

----------------------------------------------------------------------------
(* Claims about the task operations *)

\* C13: a shift whose targetDate is strictly before today returns
\* success = false with the past-date error, whatever task the reference
\* names and whether it exists, without calling getTask, updateTask or addTask
\* and without changing the stored days.
C13_PastDatePrecedence ==
    [][(ret'.op = "shift" /\ ret'.args[3] < Today)
        => /\ ret'.has = FALSE
           /\ ret'.error = S("Cannot shift to past date")
           /\ ret'.calls = <<>>
           /\ days' = days]_vars

\* a shift to a past date of a reference that names no task
C13_Witness ==
    /\ ret.op = "shift"
    /\ ret.args[3] < Today
    /\ getTask(days, ret.args[1], normalizeTaskId(ret.args[2])) = NoTask
    /\ ret.error = S("Cannot shift to past date")

\* a shift to a past date of a task that exists
C13_WitnessExisting ==
    /\ ret.op = "shift"
    /\ ret.args[3] < Today
    /\ getTask(days, ret.args[1], normalizeTaskId(ret.args[2])) # NoTask
    /\ ret.error = S("Cannot shift to past date")

\* the task a task operation was called on, as stored before the call
TargetTask(ds, r) == getTask(ds, r.args[1], normalizeTaskId(r.args[2]))

\* the errors of the already-completed kind and of the already-shifted kind
AlreadyErrors(status) ==
    IF status = "done"
    THEN {S("Task already completed"), S("Cannot skip completed task"),
          S("Cannot shift completed task")}
    ELSE {S("Task was shifted"), S("Task already shifted")}

TaskOps == {"complete", "skip", "shift"}

C14_WitnessShiftDone ==
    /\ ret.op = "shift"
    /\ TargetTask(days, ret).status = "done"
    /\ ret.error = S("Cannot shift completed task")

\* a done task was asked to be skipped
C14_WitnessSkipDone ==
    /\ ret.op = "skip"
    /\ TargetTask(days, ret).status = "done"
    /\ ret.error = S("Cannot skip completed task")

\* the source entry of a successful shift, as it must be stored afterwards
ShiftedSource(src, target, reason) ==
    [src EXCEPT !.status = "shifted", !.shiftedTo = target, !.shiftReason = reason]

\* the tasks of day d after a shift that leaves every entry but entry i of
\* the source day as it was
KeptTasks(ds, d, date, i, target, reason) ==
    IF d = date
    THEN [ds[d].tasks EXCEPT ![i] = ShiftedSource(@, target, reason)]
    ELSE ds[d].tasks

\* C15: a successful shift(day, ref, target, reason) was made on a pending or
\* skipped task; it leaves the source entry in place on day with status
\* shifted, shiftedTo = target and shiftReason = reason, and adds exactly one
\* entry, on the target day, with the title, description and time slot of the
\* source, status pending, origin = day and the id of the target day's
\* counter; that entry is the task it returns, and nothing else changes.
C15_ShiftForks ==
    [][(ret'.op = "shift" /\ ret'.has)
        => LET date == ret'.args[1]
               target == ret'.args[3]
               reason == ret'.args[4]
               src == TargetTask(days, ret')
               i == TaskIndex(days[date].tasks, normalizeTaskId(ret'.args[2]))
               new == ret'.task
           IN  /\ src.status \in {"pending", "skipped"}
               /\ \A d \in Dates \ {target} :
                     days'[d] = [days[d] EXCEPT !.tasks = KeptTasks(days, d, date, i, target, reason)]
               /\ days'[target].tasks
                     = Append(KeptTasks(days, target, date, i, target, reason), new)
               /\ days'[target].nextTaskId = days[target].nextTaskId + 1
               /\ days'[target].habits = days[target].habits
               /\ new.id = <<"t-">> \o PadStart3(days[target].nextTaskId)
               /\ new.title = src.title
               /\ new.description = src.description
               /\ new.islamicTimeSlot = src.islamicTimeSlot
               /\ new.status = "pending"
               /\ new.origin = date
               /\ new.shiftedTo = NoDate /\ new.completedAt = NoTime]_vars

\* a task of today that has a description was shifted to a later day with
\* a reason
C15_Witness ==
    /\ ret.op = "shift"
    /\ ret.has
    /\ ret.args[3] = Today + 3
    /\ ret.args[4] # Undef
    /\ ret.task.id = <<"t-", "00", "1">>
    /\ ret.task.description # Undef
    /\ ret.task.origin = Today
    /\ ret.task.description # Undef
    /\ ret.task.origin = Today

\* a task was shifted to the day it is on
C15_WitnessSameDay ==
    /\ ret.op = "shift"
    /\ ret.has
    /\ ret.args[3] = ret.args[1]
    /\ Len(days[Today].tasks) = 2

----------------------------------------------------------------------------
(* Claims about classification *)

\* what the first and the escalated model call of the latest classify
\* returned to it
FirstResult == callClassificationModel(ai.first)
EscalatedResult == callClassificationModel(ai.second)
EscalatedReturned == Len(ai.calls) = 2 /\ ai.second.kind # "throws"

C16_WitnessReplaced ==
    /\ EscalatedReturned
    /\ EscalatedResult.confidence > FirstResult.confidence
    /\ ai.result.wasEscalated

\* C17: classify calls the stronger model exactly when the first result's
\* confidence is below 0.6 and its intent is not greeting, and it makes at
\* most two model calls.
C17_EscalationTrigger ==
    ai.first.kind = "json"
    => /\ Len(ai.calls) <= 2
       /\ Len(ai.calls) = 2
             <=> (FirstResult.confidence < ESCALATION /\ FirstResult.intent # "greeting")

C18_WitnessEscalated ==
    /\ EscalatedReturned
    /\ ai.second.kind = "json"
    /\ ai.second.confidence = Missing
    /\ ai.result.wasEscalated

\* the first call reported a confidence below 0
C18_WitnessNegative ==
    /\ ai.first.kind = "json"
    /\ ai.first.confidence < 0
    /\ ai.result.confidence = 0

\* C19: when the first or the escalated model call throws, classify does not
\* throw and returns intent unclear, confidence 0 and a follow-up question.
C19_ErrorsAbsorbed ==
    (ai.first.kind = "throws" \/ (Len(ai.calls) = 2 /\ ai.second.kind = "throws"))
    => /\ ~ai.threw
       /\ ai.result.intent = "unclear"
       /\ ai.result.confidence = 0
       /\ ai.result.followUpQuestion # Undef

\* the escalated call threw
C19_Witness ==
    /\ Len(ai.calls) = 2
    /\ ai.second.kind = "throws"
    /\ ai.result = ClassificationFailed

\* the first call threw
C19_WitnessFirst ==
    /\ ai.calls = <<"FAST">>
    /\ ai.first.kind = "throws"
    /\ ai.result = ClassificationFailed

\* C20: when the model's output cannot be parsed, classify returns the
\* result it returns for a thrown error (unclear, confidence 0, a follow-up
\* question), and the router answers it in its tier for confidence below
\* 0.3: the unknown-intent reply, no handler entered.
C20_UnparseableOutput ==
    [][/\ (ai'.first.kind = "unparseable") => (ai'.result = ClassificationFailed)
       /\ (ret'.op = "handleText" /\ ai.first.kind = "unparseable")
          => /\ ret'.classified.confidence = 0
             /\ ret'.ran = <<>>
             /\ ret'.sent = <<AR_UNKNOWN_INTENT>>]_vars

----------------------------------------------------------------------------
(* Claims about failing collaborators *)

\* C21: when context building, classification or a handler throws during
\* handleText and sendText succeeds, handleText sends the generic error reply
\* and nothing else, and its promise does not reject.
C21_CatchAllReply ==
    (/\ ret.op = "handleText"
     /\ ret.faults \cap {"context", "classify", "storage"} # {}
     /\ "sendError" \notin ret.faults)
    => /\ ret.sent = <<AR_ERROR_GENERIC>>
       /\ ~ret.rejected

\* the storage call of a handler threw and the error reply went out
C21_Witness ==
    /\ ret.op = "handleText"
    /\ ret.faults = {"storage"}
    /\ ret.ran # <<>>
    /\ ret.sent = <<AR_ERROR_GENERIC>>

\* classification threw and the error reply went out
C21_WitnessClassify ==
    /\ ret.op = "handleText"
    /\ ret.faults = {"classify"}
    /\ ret.sent = <<AR_ERROR_GENERIC>>

\* C22: no failure of sendText, the sending of the generic error reply
\* included, makes handleText reject.
C22_BestEffortDelivery ==
    ret.op = "handleText" => ~ret.rejected

\* the pending fields of a conversation state
PendingFields(state) ==
    <<state.pendingState, state.pendingReference, state.pendingAction>>

\* C23: when the storage write of a turn that consumes a pending
\* confirmation throws, pendingState, pendingReference and pendingAction are
\* after the turn what they were before it.
C23_PendingCommitOrder ==
    [][(/\ ret'.op = "handleText"
        /\ "storage" \in ret'.faults
        /\ ret'.ran # <<>>
        /\ ret'.ran[1] = "handleConfirmation")
        => PendingFields(states'[ret'.id]) = PendingFields(StateOrInitial(states, ret'.id))]_vars

\* C24: when transcribe resolves with success = false or with an empty
\* text, handleAudio never classifies and never enters handleText: no handler
\* runs, the conversation states, the histories and the daily logs stay as
\* they were, every text it passes to sendText is the transcription-failed
\* reply, and with sendText working it is sent exactly once.
C24_TranscriptionFailure ==
    [][(/\ ret'.op = "handleAudio"
        /\ ret'.faults \cap {"download", "transcribe"} = {}
        /\ (~ret'.args[1].success \/ ret'.args[1].text = Undef))
        => /\ states' = states
           /\ added' = added
           /\ days' = days
           /\ ret'.classified = NoClassified
           /\ ret'.ran = <<>>
           /\ \A i \in 1..Len(ret'.sent) : ret'.sent[i] = AR_TRANSCRIPTION_FAILED
           /\ ret'.faults = {} => ret'.sent = <<AR_TRANSCRIPTION_FAILED>>]_vars

\* a voice note that could not be transcribed, though a text came back,
\* arrived while a justification was awaited
C24_Witness ==
    /\ ret.op = "handleAudio"
    /\ ~ret.args[1].success
    /\ ret.args[1].text # Undef
    /\ ret.faults = {}
    /\ ret.sent = <<AR_TRANSCRIPTION_FAILED>>
    /\ "A" \in DOMAIN states
    /\ states["A"].pendingState = "awaiting_justification"

----------------------------------------------------------------------------
(* Claims about entity normalization *)

\* the characters of a string of fragments; "abc" stands for any run of
\* characters that are neither digits nor a t prefix
RECURSIVE Chars(_)
Chars(str) ==
    IF str = <<>> THEN <<>>
    ELSE (CASE Head(str) \in {"t-", "t-1"} -> <<"t", "-">>
            [] Head(str) = "T-" -> <<"T", "-">>
            [] Head(str) = "00" -> <<"0", "0">>
            [] OTHER -> <<Head(str)>>)
         \o (IF Head(str) = "t-1" THEN <<"1">> ELSE <<>>) \o Chars(Tail(str))
IsDigit(char) == char \in {"0", "1", "2"}

\* the forms of the first task's reference, and the canonical one
FirstTaskForms ==
    {Chars(S("1")), Chars(<<"t-", "1">>), Chars(<<"t-", "00", "1">>), Chars(<<"00", "1">>),
     Chars(<<"T-", "00", "1">>), Chars(<<"t", "1">>)}
\* t-NNN: the prefix and a number of three digits, or more with no leading zero
IsCanonical(chars) ==
    /\ Len(chars) >= 5
    /\ chars[1] = "t" /\ chars[2] = "-"
    /\ \A i \in 3..Len(chars) : IsDigit(chars[i])
    /\ Len(chars) > 5 => chars[3] # "0"
\* a number, with or without the t prefix
IsNumeric(chars) ==
    LET from == IF chars # <<>> /\ chars[1] \in {"t", "T"}
                THEN (IF Len(chars) > 1 /\ chars[2] = "-" THEN 3 ELSE 2)
                ELSE 1
    IN  /\ from <= Len(chars)
        /\ \A i \in from..Len(chars) : IsDigit(chars[i])

\* C25: both normalizers map "1", "t-1", "t-001", "001", "T-001" and "t1" to
\* "t-001", return a canonical t-NNN unchanged, and return a reference that
\* is not a number unchanged
C25_ReferenceNormalization ==
    ret.op \in {"normalizeTaskId", "aiNormalizeTaskId"} =>
        LET raw == Chars(ret.args[1])
            normalized == Chars(ret.value)
        IN  /\ raw \in FirstTaskForms => normalized = <<"t", "-", "0", "0", "1">>
            /\ IsCanonical(raw) => normalized = raw
            /\ ~IsNumeric(raw) => normalized = raw

\* what TaskService's normalizer alone is checked to do: the forms of a
\* number all become the canonical one
C25_TaskServiceForms ==
    ret.op = "normalizeTaskId" =>
        LET raw == Chars(ret.args[1])
            normalized == Chars(ret.value)
        IN  /\ raw \in FirstTaskForms => normalized = <<"t", "-", "0", "0", "1">>
            /\ IsCanonical(raw) => normalized = raw
            /\ IsNumeric(raw) => IsCanonical(normalized)
\* what the adapter's normalizer is checked to do: a prefixed number is
\* padded, anything else is returned as it is
C25_AdapterForms ==
    ret.op = "aiNormalizeTaskId" =>
        LET raw == Chars(ret.args[1])
            normalized == Chars(ret.value)
        IN  /\ IsCanonical(raw) => normalized = raw
            /\ ~IsNumeric(raw) => normalized = raw
            /\ IsNumeric(raw) /\ IsDigit(raw[1]) => normalized = raw
            /\ raw \in FirstTaskForms /\ ~IsDigit(raw[1])
                  => normalized = <<"t", "-", "0", "0", "1">>

\* the expressions the resolver is meant to know: the relative words, the
\* weekday names and the literal dates
RelativeWords ==
    {"today", "an-naharda", "an-nahardah", "al-yawm", "tomorrow", "bukra", "bukrah",
     "ghadan", "ghadan~", "day after tomorrow", "baad bukrah", "baad bukra", "baad ghad",
     "yesterday", "ambarih", "imbarih", "ams"}
DayNames == DOMAIN englishDays \cup DOMAIN arabicDays
DayOf(name) == IF name \in DOMAIN englishDays THEN englishDays[name] ELSE arabicDays[name]
KnownForms == RelativeWords \cup DayNames \cup DOMAIN literalDates

\* the weekday names resolve to the one date on that weekday within the
\* seven days after the reference date
C26_NextOccurrence ==
    ret.op = "resolveRelativeDate" /\ LowerTrim(ret.args[1][1]) \in DayNames =>
        LET R == ret.args[2]
            W == DayOf(LowerTrim(ret.args[1][1]))
        IN  /\ Weekday(ret.value) = W
            /\ R < ret.value /\ ret.value <= R + 7
            /\ Weekday(R) = W => ret.value = R + 7

\* C26: a weekday name W resolves against reference date R to the one date
\* D on weekday W with R < D <= R + 7, so to R + 7 when R falls on W; an
\* expression of no known form resolves to null
C26_WeekdayResolution ==
    ret.op = "resolveRelativeDate" =>
        LET R == ret.args[2]
            normalized == LowerTrim(ret.args[1][1])
        IN  /\ normalized \in DayNames =>
                  /\ Weekday(ret.value) = DayOf(normalized)
                  /\ R < ret.value /\ ret.value <= R + 7
                  /\ Weekday(R) = DayOf(normalized) => ret.value = R + 7
            /\ normalized \notin KnownForms => ret.value = NoDate

\* the places <<day, index>> of the tasks that findSimilarInWeek(day, title)
\* is to consider: open tasks of the seven days around day that are at
\* least 0.7 similar to title
AtLeast(a, b) == a.num * b.den >= b.num * a.den
Threshold == [num |-> 7, den |-> 10]
SimilarityAt(place, title) == calculateSimilarity(title, days[place[1]].tasks[place[2]].title)
Qualifying(day, title) ==
    {place \in (((day - 3)..(day + 3)) \cap DOMAIN days) \X (1..SimilarTasks + 1) :
        /\ place[2] <= Len(days[place[1]].tasks)
        /\ days[place[1]].tasks[place[2]].status \notin {"done", "shifted"}
        /\ AtLeast(SimilarityAt(place, title), Threshold)}
Earlier(a, b) == a[1] < b[1] \/ (a[1] = b[1] /\ a[2] < b[2])
\* the result is null exactly when nothing qualifies, and otherwise the
\* first in scan order of the most similar qualifying tasks
SimilarAsClaimed ==
    LET day == ret.args[1]
        title == ret.args[2]
        found == Qualifying(day, title)
    IN  /\ ret.value = NoSimilar <=> found = {}
        /\ found # {} =>
              \E place \in found :
                  /\ ret.value.task = days[place[1]].tasks[place[2]]
                  /\ ret.value.date = place[1]
                  /\ ret.value.similarity = SimilarityAt(place, title)
                  /\ \A other \in found :
                        /\ AtLeast(SimilarityAt(place, title), SimilarityAt(other, title))
                        /\ AtLeast(SimilarityAt(other, title), SimilarityAt(place, title))
                              => ~Earlier(other, place)

\* where the local day of midnight UTC is the day itself, the search is as
\* claimed
C27_SimilarAtOrEastOfUtc ==
    ret.op = "findSimilarInWeek" /\ ~ret.args[3] => SimilarAsClaimed

\* C27: findSimilarInWeek(day, title) is null iff no open task of the days
\* day-3 .. day+3 is at least 0.7 similar to title; otherwise it is the most
\* similar of them, the first in scan order among equals
C27_FindSimilarInWeek ==
    ret.op = "findSimilarInWeek" => SimilarAsClaimed

----------------------------------------------------------------------------
(* Claims about task ids *)

\* the id with number n
IdOf(n) == <<"t-">> \o PadStart3(n)
\* the ids of the tasks of a day record
IdsIn(log) == {log.tasks[i].id : i \in 1..Len(log.tasks)}
\* the ids of a day record are distinct, and each is the t-NNN of a number
\* below the record's counter
IdsWellFormed(log) ==
    /\ \A i, j \in 1..Len(log.tasks) : log.tasks[i].id = log.tasks[j].id => i = j
    /\ \A id \in IdsIn(log) : \E n \in 1..(log.nextTaskId - 1) : id = IdOf(n)
\* one step of a day record: no id appears and the counter stays, or the one
\* id that appears is that of the counter, which moves on by one
IdStep(old, new) ==
    \/ /\ IdsIn(new) \subseteq IdsIn(old)
       /\ new.nextTaskId = old.nextTaskId
    \/ /\ IdsIn(new) \ IdsIn(old) = {IdOf(old.nextTaskId)}
       /\ new.nextTaskId = old.nextTaskId + 1

\* C28: in every day record the ids are pairwise distinct and of the form
\* t-NNN; the counter starts at 1, every added task takes the counter's
\* number and moves the counter on by one, so the k-th task added has number
\* k, and no operation moves the counter back or brings a number back
C28_TaskIdAssignment ==
    [][\A date \in Dates :
          /\ IdStep(days[date], days'[date])
          /\ IdsWellFormed(days'[date])]_vars

\* a task was added to a day after an earlier one was deleted from it, and
\* took the next number, not the free one
C28_Witness ==
    /\ ret.op = "create"
    /\ days[Today].nextTaskId = 3
    /\ IdsIn(days[Today]) = {IdOf(2)}
\* the copy a shift adds took the number after that of a deleted task
C28_WitnessShift ==
    /\ ret.op = "shift" /\ ret.has
    /\ days[Today + 3].nextTaskId = 3
    /\ IdsIn(days[Today + 3]) = {IdOf(2)}

----------------------------------------------------------------------------
(* Claims about the conversations of different users *)

\* the operations that are made for one conversation id
ConversationOps ==
    {"getState", "setState", "clearPendingState", "addMessage", "hasPendingState",
     "handleText", "handleTextMessage", "classify", "sendText"}
\* the step leaves what the store holds for id as it is
Untouched(id) ==
    /\ id \in DOMAIN states <=> id \in DOMAIN states'
    /\ id \in DOMAIN states => states'[id] = states[id]

\* C29: an operation of the store and a step of a handleText turn for one
\* conversation id leave the state of every other id unchanged, however the
\* turns of the two overlap; an id the store does not know gets a state
\* with pendingState idle and, but for a message the operation adds, an empty
\* history
C29_ConversationIsolation ==
    [][ret'.op \in ConversationOps =>
          /\ \A other \in Ids \ {ret'.id} : Untouched(other)
          /\ ret'.id \notin DOMAIN states =>
                /\ ret'.id \in DOMAIN states'
                /\ ret'.op \notin {"setState"} => states'[ret'.id].pendingState = "idle"
                /\ ret'.op \in {"getState", "hasPendingState", "clearPendingState"}
                      => states'[ret'.id] = createInitialState
                /\ Len(states'[ret'.id].recentMessages) <= 1]_vars

\* A's turn has just left A waiting for a confirmation while B, with a turn
\* of its own still under way, waits for a justification and has a history
C29_Witness ==
    /\ ret.op = "classify" /\ ret.id = "A"
    /\ "A" \in DOMAIN states /\ states["A"].pendingState = "awaiting_confirmation"
    /\ "B" \in DOMAIN states /\ states["B"].pendingState = "awaiting_justification"
    /\ states["B"].recentMessages # <<>>
    /\ \E k \in 1..Len(flight) : flight[k].id = "B"

----------------------------------------------------------------------------
(* Claims about skipping a habit *)

\* the turn just made ran handleHabitSkipped, directly or for a confirmed
\* classification, and the handler found a habit
SkipReplayed == ret'.ran = <<"handleConfirmation", "handleHabitSkipped">>
SkipExecuted ==
    /\ ret'.op = "handleText"
    /\ ret'.ran \in {<<"handleHabitSkipped">>, <<"handleConfirmation", "handleHabitSkipped">>}
    /\ ret'.sent # <<MSG_CANNOT_IDENTIFY_HABIT>>
\* the entities the handler was given: those of the turn's classification,
\* or those stored with the confirmation request
SkipEntity(key) ==
    IF SkipReplayed THEN JsonGet(Before(ret'.id).pendingReference, key)
    ELSE IF key = "habitId" THEN ret'.classified.habitId ELSE ret'.classified.justification
\* the habits the entities may mean: the one they name, or any when they
\* name none
SkipHabits ==
    {habits[i] : i \in {i \in 1..Len(habits) :
                           SkipEntity("habitId") \in {Undef, habits[i].id}}}
\* the handler asked for the justification of habit h and wrote nothing
Asked(h) ==
    /\ ret'.wrote = <<>>
    /\ days' = days
    /\ states'[ret'.id].pendingState = "awaiting_justification"
    /\ states'[ret'.id].pendingReference = h.id
    /\ ret'.sent = <<AR_HABIT_ASK_JUSTIFICATION>>
\* the handler wrote the skip of habit h with the justification, and a
\* conversation with nothing pending has nothing pending afterwards
SkipWritten(h, justification) ==
    /\ ret'.wrote = <<WriteCall(h.id, "skipped", justification)>>
    /\ HabitStatusOn(days', Today, h.id) = "skipped"
    /\ days'[Today].habits[HabitIndex(days'[Today].habits, h.id)].justification = justification
    /\ SkipReplayed \/ Before(ret'.id).pendingState = "idle"
          => states'[ret'.id].pendingState = "idle"

C30_WitnessJustified ==
    /\ ret.op = "handleText"
    /\ ret.classified.intent = "habit_skipped"
    /\ ret.ran = <<"handleHabitSkipped">>
    /\ ret.wrote = <<WriteCall(S("quran-reading"), "skipped", S("sick"))>>
    /\ HabitStatusOn(days, Today, S("quran-reading")) = "skipped"
    /\ states[ret.id].pendingState = "idle"
\* a confirmed skip without a reason is met with the question as well
C30_WitnessConfirmed ==
    /\ ret.op = "handleText"
    /\ ret.ran = <<"handleConfirmation", "handleHabitSkipped">>
    /\ ret.sent = <<AR_HABIT_ASK_JUSTIFICATION>>
    /\ states[ret.id].pendingState = "awaiting_justification"

----------------------------------------------------------------------------
(* Claims about the history of a turn *)

\* the last text a handleText call passed to sendText, which is the reply
\* the user received when the call did not reject
SentReply(r) == r.sent[Len(r.sent)]

\* the history of id gained the inbound text and then the reply that was sent
GainedTurn(id, reply) ==
    LET h == states'[id].recentMessages
        calls == added'[id]
        n == Len(added[id])
    IN  /\ Len(calls) = n + 2
        /\ SubSeq(calls, 1, n) = added[id]
        /\ calls[n + 1].role = "user"
        /\ calls[n + 2] = [role |-> "assistant", content |-> reply, timestamp |-> now]
        /\ Len(h) >= 2
        /\ h[Len(h) - 1] = calls[n + 1]
        /\ h[Len(h)] = calls[n + 2]

\* C31: in every handleText turn in which a reply reaches the user (the
\* reply of a handler, the confirmation prompt, the unknown-intent reply or
\* the generic error reply), the history of the conversation gains the
\* inbound text followed by that reply as an assistant message.
C31_TurnHistory ==
    [][(/\ ret'.op = "handleText"
        /\ ret'.sent # <<>>
        /\ ~ret'.rejected)
        => GainedTurn(ret'.id, SentReply(ret'))]_vars

\* the same for the turns in which nothing throws
C31_TurnHistoryNoFault ==
    [][(/\ ret'.op = "handleText"
        /\ ret'.faults = {})
        => GainedTurn(ret'.id, SentReply(ret'))]_vars

----------------------------------------------------------------------------
(* Claims about expired pending actions *)

\* C32: when an action was stored under awaiting_confirmation at time T and
\* the next message of the conversation classified as confirmation is
\* handled later than T + pendingExpiryMin minutes, no handler of the stored
\* action runs and the turn is the turn of an idle conversation: nothing is
\* written, the reply is the unknown-intent reply and the pending fields are
\* idle and cleared.
C32_ExpiredNeverExecuted ==
    [][\A id \in Ids :
        (/\ ret'.op = "handleText" /\ ret'.id = id
         /\ ret'.classified.intent = "confirmation"
         /\ stamp[id].pendingState = "awaiting_confirmation"
         /\ now > stamp[id].at + pendingExpiryMin)
        => /\ ret'.ran \in {<<>>, <<"handleConfirmation">>}
           /\ ret'.wrote = <<>>
           /\ days' = days
           /\ ret'.sent = <<AR_UNKNOWN_INTENT>>
           /\ states'[id].pendingState = "idle"
           /\ states'[id].pendingReference = Undef
           /\ states'[id].pendingAction = Undef
           /\ states'[id].pendingSetAt = NoTime]_vars

\* a confirmation arrived more than pendingExpiryMin minutes after the
\* prompt for a habit_done and found nothing to confirm
C32_Witness ==
    /\ ret.op = "handleText" /\ ret.id = "A"
    /\ ret.classified.intent = "confirmation"
    /\ ret.classified.confidence = 85
    /\ ret.ran = <<"handleConfirmation">>
    /\ ret.sent = <<AR_UNKNOWN_INTENT>>
    /\ Len(added["A"]) = 4
    /\ added["A"][2].content =
          AR_CONFIRMATION_PROMPT(describeAction(Habit("habit_done", 59, S("quran-reading"), Undef)))
    /\ now > added["A"][2].timestamp + pendingExpiryMin
    /\ HabitStatusOn(days, Today, S("quran-reading")) # "done"
    /\ states["A"].pendingState = "idle"

----------------------------------------------------------------------------
(* Claims about the status of a task entry *)

\* the status changes a task entry may go through
StatusTransitions ==
    {<<"pending", "done">>, <<"pending", "skipped">>, <<"skipped", "done">>,
     <<"pending", "shifted">>, <<"skipped", "shifted">>}

\* every entry of the day is still there, with its id, and its status is
\* what it was or went along one of the transitions
StatusStep(old, new) ==
    /\ Len(new.tasks) >= Len(old.tasks)
    /\ \A i \in 1..Len(old.tasks) :
          /\ new.tasks[i].id = old.tasks[i].id
          /\ \/ new.tasks[i].status = old.tasks[i].status
             \/ <<old.tasks[i].status, new.tasks[i].status>> \in StatusTransitions

\* C33: under any sequence of complete, skip and shift calls, successful or
\* not, the status of a task entry changes only along pending -> done,
\* pending -> skipped, skipped -> done, pending -> shifted and
\* skipped -> shifted, so that done and shifted are terminal; a skipped task
\* is completed by complete and shifted by a shift to a day that is not past.
C33_StatusTransitions ==
    [][/\ \A date \in Dates : StatusStep(days[date], days'[date])
       /\ (ret'.op = "complete" /\ TargetTask(days, ret').status = "skipped")
            => (ret'.has /\ TargetTask(days', ret').status = "done")
       /\ (/\ ret'.op = "shift" /\ TargetTask(days, ret').status = "skipped"
           /\ LocalDayOf(ret'.args[3], ret'.args[5]) >= Today)
            => (ret'.has /\ TargetTask(days', ret').status = "shifted")]_vars

\* a task skipped with a justification was completed afterwards
C33_Witness ==
    /\ ret.op = "complete" /\ ret.has
    /\ ret.task.status = "done"
    /\ ret.task.shiftReason = S("busy")

\* a task was shifted and a done task refused to be skipped
C33_WitnessTerminal ==
    /\ ret.op = "skip" /\ ~ret.has
    /\ TargetTask(days, ret).status = "done"
    /\ \E i \in 1..Len(days[Today].tasks) : days[Today].tasks[i].status = "shifted"

----------------------------------------------------------------------------
(* Claims about reminders *)

\* what a scheduled entry is for and when
ReminderKey(r) == <<r.habitId, r.type>>
ReminderSet(scheduled) ==
    {<<scheduled[i].habitId, scheduled[i].type, scheduled[i].scheduledTime>> :
        i \in 1..Len(scheduled)}

\* C34: scheduleDailyReminders cancels every reminder scheduled before, so
\* that after any number of calls the scheduled list holds at most one entry
\* per habit and type, right after a call every entry is for a time strictly
\* in the future, a call that follows a call at the same time leaves the
\* same reminders, and no timer cancelled by cancelAllReminders or by a
\* reschedule ever calls back.
C34_ReminderRescheduling ==
    [][/\ \A i, j \in 1..Len(scheduledReminders') :
            ReminderKey(scheduledReminders'[i]) = ReminderKey(scheduledReminders'[j]) => i = j
       /\ ret'.op = "scheduleDailyReminders" =>
            \A i \in 1..Len(scheduledReminders') : scheduledReminders'[i].scheduledTime > now'
       /\ (ret.op = "scheduleDailyReminders" /\ ret'.op = "scheduleDailyReminders") =>
            ReminderSet(scheduledReminders') = ReminderSet(scheduledReminders)
       /\ \A h \in 1..Len(timers') : timers'[h].cancelled => timers'[h].state # "fired"]_vars

\* a second call replaced the three reminders of the first: the timers of
\* the first are cleared, the list holds the three of the second
C34_Witness ==
    /\ ret.op = "scheduleDailyReminders"
    /\ Len(timers) = 6
    /\ \A h \in 1..3 : timers[h].cancelled /\ timers[h].state = "cleared"
    /\ Len(scheduledReminders) = 3
    /\ \A i \in 1..3 : scheduledReminders[i].timeout = i + 3

\* a call after the start of the first slot, whose reminder has fired,
\* leaves the reminders still to come; the timers of the earlier call were
\* cancelled and the clock has passed their time
C34_WitnessPast ==
    /\ ret.op = "scheduleDailyReminders"
    /\ now = 2
    /\ timers[1].state = "fired"
    /\ timers[2].cancelled /\ timers[2].state = "cleared"
    /\ Len(scheduledReminders) = 2
    /\ scheduledReminders[1].type = "before_end"

----------------------------------------------------------------------------
(* Claims about racing confirmations *)

\* the step is handleText resuming after a classification as confirmation
\* that passes the confidence gate
ConfirmationResumes ==
    /\ ret'.op = "classify"
    /\ ret'.classified.intent = "confirmation"
    /\ ret'.classified.confidence >= CONFIDENCE_LOW

\* the step entered the handler of a stored action
ExecutesStored == ConfirmationResumes /\ Len(ret'.ran) >= 2

\* the step executed nothing: no handler but handleConfirmation, no write,
\* the unknown-intent reply
ExecutesNothing ==
    /\ ret'.ran = <<"handleConfirmation">>
    /\ ret'.wrote = <<>>
    /\ days' = days
    /\ \E k \in 1..Len(flight) :
          /\ flight[k].pc = "classify"
          /\ flight'[k].pc = "send"
          /\ flight'[k].response = AR_UNKNOWN_INTENT

\* the assistant messages of id that are confirmation prompts, and those
\* that are replies of an executed action
PromptsOf(id) ==
    {i \in 1..Len(added[id]) :
        /\ added[id][i].role = "assistant"
        /\ added[id][i].content[1] = "AR.CONFIRMATION_PROMPT("}
ExecutionsOf(id) ==
    {i \in 1..Len(added[id]) :
        /\ added[id][i].role = "assistant"
        /\ added[id][i].content[1] # "AR.CONFIRMATION_PROMPT("
        /\ added[id][i].content # AR_UNKNOWN_INTENT}

\* every execution consumes the action pending under awaiting_confirmation,
\* and when all turns have ended no more actions were executed than stored
ExecutedAtMostOnce ==
    /\ ExecutesStored =>
          /\ Before(ret'.id).pendingState = "awaiting_confirmation"
          /\ states'[ret'.id].pendingState # "awaiting_confirmation"
    /\ flight' = <<>> =>
          \A id \in RouterIds : Cardinality(ExecutionsOf(id)') <= Cardinality(PromptsOf(id)')

\* C35 as stated: under every interleaving of handleText turns of one
\* conversation that are classified as confirmation, the handler of a stored
\* action is executed at most once, and every other such turn finds
\* pendingState = idle and executes nothing.
C35_RacingConfirmations ==
    [][/\ ExecutedAtMostOnce
       /\ (ConfirmationResumes /\ ~ExecutesStored) =>
             (Before(ret'.id).pendingState = "idle" /\ ExecutesNothing)]_vars

\* C35, amended: under every interleaving of handleText turns of one
\* conversation that are classified as confirmation, the handler of a stored
\* action is executed at most once, and every other such turn finds no
\* action pending under awaiting_confirmation (pendingState is idle, or
\* awaiting_justification when the executed action was a skip that asked for
\* its justification) and executes nothing.
C35_AtMostOnce ==
    [][/\ ExecutedAtMostOnce
       /\ (ConfirmationResumes /\ ~ExecutesStored) =>
             (/\ Before(ret'.id).pendingState \in {"idle", "awaiting_justification"}
              /\ ExecutesNothing)]_vars

\* two confirmation turns were in flight together for one stored
\* habit_done: the first to resume has executed it and awaits its sendText,
\* the second has just found the state idle
C35_Witness ==
    /\ ret.op = "classify"
    /\ ret.classified.intent = "confirmation"
    /\ ret.ran = <<"handleConfirmation">>
    /\ Len(flight) = 2
    /\ flight[1].pc = "send" /\ flight[1].response = AR_HABIT_DONE(S("Quran reading"))
    /\ flight[2].pc = "send" /\ flight[2].response = AR_UNKNOWN_INTENT
    /\ HabitStatusOn(days, Today, S("quran-reading")) = "done"
    /\ states["A"].pendingState = "idle"

\* the second confirmation found the justification of the executed skip
\* awaited
C35_WitnessJustification ==
    /\ ret.op = "classify"
    /\ ret.classified.intent = "confirmation"
    /\ ret.ran = <<"handleConfirmation">>
    /\ Len(flight) = 2
    /\ flight[1].pc = "send" /\ flight[1].response = AR_HABIT_ASK_JUSTIFICATION
    /\ states["A"].pendingState = "awaiting_justification"

----------------------------------------------------------------------------
(* Claims about the pending fields *)

\* pendingSetAt is defined exactly when the state is not idle
StampedWhenPending(st) == (st.pendingState = "idle") <=> (st.pendingSetAt = NoTime)

\* an idle state holds no reference and no action
NoPayload(st) ==
    st.pendingState = "idle" => (st.pendingReference = Undef /\ st.pendingAction = Undef)

\* C36 as stated: in every state reachable through getState, setState with
\* any partial update, clearPendingState, addMessage and router turns,
\* pendingState = idle implies that pendingReference, pendingAction and
\* pendingSetAt are undefined, and pendingSetAt is defined whenever
\* pendingState is not idle.
C36_IdleNoPayload ==
    \A id \in DOMAIN states : NoPayload(states[id]) /\ StampedWhenPending(states[id])

\* C36, amended: in every state reachable through getState, setState with an
\* update that sets a non-idle pendingState, clearPendingState, addMessage
\* and router turns, pendingState = idle implies that pendingReference,
\* pendingAction and pendingSetAt are undefined; under setState with any
\* partial update pendingState = idle still implies that pendingSetAt is
\* undefined; and pendingSetAt is defined whenever pendingState is not idle.
\* Every step but a setState that leaves the state idle keeps the idle state
\* without reference and action.
C36_IdleNoTimestamp ==
    [][\A id \in DOMAIN states' :
          /\ StampedWhenPending(states'[id])
          /\ (/\ NoPayload(StateOrInitial(states, id))
              /\ ~(ret'.op = "setState" /\ states'[id].pendingState = "idle"))
                => NoPayload(states'[id])]_vars

\* setState to idle over an awaited justification cleared the timestamp and
\* left the reference
C36_Witness ==
    /\ ret.op = "setState"
    /\ states["A"].pendingState = "idle"
    /\ states["A"].pendingSetAt = NoTime
    /\ states["A"].pendingReference = S("quran-reading")

\* a rejection turn cleared a pending confirmation with its reference and
\* action
C36_WitnessCleared ==
    /\ ret.op = "handleText"
    /\ ret.ran = <<"handleRejection">>
    /\ ret.sent = <<MSG_CANCELLED>>
    /\ states["A"].pendingState = "idle"
    /\ states["A"].pendingReference = Undef
    /\ states["A"].pendingAction = Undef
    /\ states["A"].pendingSetAt = NoTime

----------------------------------------------------------------------------
(* Claims about a shift whose storage fails *)

\* the day task.shiftedTo holds an entry forked from the task of that date
Forked(ds, date, task) ==
    \E i \in 1..Len(ds[task.shiftedTo].tasks) :
        /\ ds[task.shiftedTo].tasks[i].origin = date
        /\ ds[task.shiftedTo].tasks[i].title = task.title

\* every entry marked shifted has its fork on the day it was shifted to
ShiftedHaveForks(ds) ==
    \A date \in Dates : \A i \in 1..Len(ds[date].tasks) :
        ds[date].tasks[i].status = "shifted" => Forked(ds, date, ds[date].tasks[i])

\* a shift call left the source marked shifted with one more entry on the
\* target day, or left every day as it was
AllOrNothing ==
    ret'.op = "shift" =>
        \/ days' = days
        \/ /\ TargetTask(days', ret').status = "shifted"
           /\ Len(days'[ret'.args[3]].tasks) > Len(days[ret'.args[3]].tasks)

\* C37: after any shift call, one in which addTask fails included, either
\* the source entry is shifted and its fork is on the target day, or the
\* source entry is unchanged and there is no fork; no source is ever marked
\* shifted without its fork.
C37_ShiftAllOrNothing ==
    [][AllOrNothing /\ ShiftedHaveForks(days')]_vars

\* the same for the shifts whose storage calls do not throw
C37_ShiftWithoutFailure ==
    [][ret'.faults = {} => (AllOrNothing /\ (ShiftedHaveForks(days) => ShiftedHaveForks(days')))]_vars

----------------------------------------------------------------------------
(* Claims about overlapping addTask calls *)

\* every addTask call made has returned
Quiescent == \A k \in 1..Len(storing) : storing[k].pc = "returned"

\* the log holds one task per call made, under distinct ids, and its
\* counter has advanced once per call
HoldsEveryCall(log) ==
    /\ Len(log.tasks) = Len(storing)
    /\ \A i, j \in 1..Len(log.tasks) : log.tasks[i].id = log.tasks[j].id => i = j
    /\ \A k \in 1..Len(storing) : \E i \in 1..Len(log.tasks) : log.tasks[i] = storing[k].newTask
    /\ log.nextTaskId = Len(storing) + 1

\* C38: once two or more addTask calls on one date have returned, however
\* their awaits interleaved and whether or not the day was cached when they
\* started, the day's record, cached and on disk, holds every task under a
\* distinct id and nextTaskId has advanced once per call.
C38_ConcurrentAddTask ==
    (Len(storing) >= 2 /\ Quiescent) =>
        /\ HoldsEveryCall(heap[cache[Today]])
        /\ HoldsEveryCall(files[Today][1])

\* the calls that found the day cached when they started share one log
\* object: their entries never share an id in it
C38_CachedDistinctIds ==
    \A j, k \in 1..Len(storing) :
        (/\ j # k
         /\ storing[j].newTask # NoTask /\ storing[k].newTask # NoTask
         /\ storing[j].log = storing[k].log)
            => storing[j].newTask.id # storing[k].newTask.id

\* two calls that both found the day uncached have returned the same id
C38_WitnessDuplicate ==
    \E j, k \in 1..Len(storing) :
        /\ j < k /\ Quiescent
        /\ storing[j].log # storing[k].log
        /\ storing[j].newTask.id = storing[k].newTask.id

\* two calls that overlapped on a cached day have both returned
C38_WitnessCached ==
    \E j, k \in 1..Len(storing) :
        /\ j < k /\ Quiescent
        /\ storing[j].log = storing[k].log

----------------------------------------------------------------------------
(* Claims about the replies of a turn *)

\* sendText threw in the latest turn
SendTextFailed(r) == r.faults \cap {"send", "sendError"} # {}

\* the latest turn was a voice note that handleAudio answered itself
NotReEntered(r) == r.op = "handleAudio" /\ r.classified = NoClassified

\* C39: a handleText or handleAudio turn in which sendText does not throw
\* calls sendText exactly once, on the normal path and in the catch block
\* alike; a voice note that is not re-entered as text is answered with the
\* transcription-failed reply.
C39_OneReplyPerTurn ==
    [][(ret'.op \in {"handleText", "handleAudio"} /\ ~SendTextFailed(ret'))
          => /\ Len(ret'.sent) = 1
             /\ NotReEntered(ret') => ret'.sent = <<AR_TRANSCRIPTION_FAILED>>]_vars

\* a typed turn ended in the catch block with the one error reply
C39_Witness ==
    /\ ret.op = "handleText" /\ ret.faults = {"classify"}
    /\ ret.sent = <<AR_ERROR_GENERIC>>

\* a voice note without a transcription got the one transcription-failed reply
C39_WitnessAudio ==
    /\ NotReEntered(ret) /\ ret.faults = {}
    /\ ret.sent = <<AR_TRANSCRIPTION_FAILED>>

\* a voice note was re-entered as text and the handler's reply was the one sent
C39_WitnessReEntered ==
    /\ ret.op = "handleAudio" /\ ret.faults = {} /\ ret.ran # <<>>
    /\ Len(ret.sent) = 1

----------------------------------------------------------------------------
(* Claims about confirming a pending action *)

\* the state holds the serialized classification of a mutating intent
HoldsMutating(st) ==
    /\ IsJson(st.pendingReference)
    /\ JsonParse(st.pendingReference).intent \in MutatingIntents

\* the latest turn was a confirmation that found an action awaiting it
Confirmed(id) ==
    /\ ret'.op = "handleText" /\ ret'.id = id
    /\ ret'.classified.intent = "confirmation"
    /\ ret'.classified.confidence >= CONFIDENCE_LOW
    /\ Before(id).pendingState = "awaiting_confirmation"

\* C40: after every turn, a conversation under awaiting_confirmation holds
\* in pendingReference the serialized classification of a mutating intent;
\* a confirmation that finds one dispatches it to its handler past the
\* confidence gate, and the turn ends with nothing under
\* awaiting_confirmation.
C40_NoConfirmationLoop ==
    [][\A id \in RouterIds :
          ret'.op = "handleText" /\ ret'.id = id =>
             /\ states'[id].pendingState = "awaiting_confirmation"
                   => HoldsMutating(states'[id])
             /\ Confirmed(id) =>
                   /\ Len(ret'.ran) = 2 /\ ret'.ran[1] = "handleConfirmation"
                   /\ ret'.sent # <<AR_CONFIRMATION_PROMPT(Before(id).pendingAction)>>
                   /\ states'[id].pendingState # "awaiting_confirmation"]_vars

\* a confirmation dispatched a stored medium-confidence classification
C40_Witness ==
    /\ ret.op = "handleText" /\ ret.classified.intent = "confirmation"
    /\ Len(ret.ran) = 2 /\ ret.ran[1] = "handleConfirmation"
    /\ ret.wrote = <<WriteCall(S("quran-reading"), "done", Undef)>>
    /\ states[ret.id].pendingState = "idle"

\* an action is awaiting its confirmation
C40_WitnessPending ==
    \E id \in DOMAIN states :
        /\ states[id].pendingState = "awaiting_confirmation"
        /\ JsonParse(states[id].pendingReference).confidence < CONFIDENCE_MEDIUM

============================================================================
